---- MODULE Spec2Model ----
(***************************************************************************)
(* A model of the custom MQTT broker of cloud/mqtt_broker.py: the length   *)
(* codec, the topic matcher, the subscription registry, the connection     *)
(* table, the per-connection handler threads and the broker lock.          *)
(*                                                                         *)
(* Byte strings (Python bytes) are sequences of numbers 0..255.  Text      *)
(* strings (Python str) are sequences of code points; the inputs of the    *)
(* model use ASCII characters and the byte 0xFF only.                      *)
(***************************************************************************)
EXTENDS Integers, Sequences, FiniteSets, TLC

(* ------------------------------------------------------------------ *)
(* Packet type codes, mqtt_broker.py:15-23                             *)
(* ------------------------------------------------------------------ *)
CONNECT == 16
CONNACK == 32
PUBLISH == 48
PUBACK == 64
SUBSCRIBE == 128
SUBACK == 144
PINGREQ == 192
PINGRESP == 208
DISCONNECT == 224

(* ------------------------------------------------------------------ *)
(* Bounds of the model                                                 *)
(* ------------------------------------------------------------------ *)
\* number of connections the accept loop may accept
MaxConns == 2
\* number of packets the handlers read, all connections together
MaxPackets == 3
\* the codec is exercised on 0..MaxSmall, around every power of 128 and at 2^28-1
MaxSmall == 40

(* ------------------------------------------------------------------ *)
(* Python primitives used by the broker                                *)
(* ------------------------------------------------------------------ *)
Min(a, b) == IF a < b THEN a ELSE b

\* data[pos:pos+n] with a 0-based pos: a slice never raises, it truncates
Slice(data, pos, n) == SubSeq(data, pos + 1, Min(pos + n, Len(data)))

\* data[pos:]
SliceFrom(data, pos) == SubSeq(data, pos + 1, Len(data))

\* struct.pack(">H", n)
PackH(n) == <<(n \div 256) % 256, n % 256>>

\* struct.unpack(">H", b)[0]; raises struct.error unless len(b) = 2
UnpackHOk(b) == Len(b) = 2
UnpackH(b) == b[1] * 256 + b[2]

\* bytes.decode('utf-8') on the model's byte alphabet: an ASCII byte is its own
\* code point, and a byte >= 0x80 standing alone (0xFF) raises UnicodeDecodeError
DecodeOk(b) == \A i \in 1..Len(b) : b[i] < 128
Decode(b) == b

\* str.encode('utf-8') of ASCII code points
Encode(s) == s

\* the characters '/', '+' and '#'
Slash == 47
Plus == 43
Hash == 35

\* str.split('/')
RECURSIVE Split(_)
Split(s) ==
  IF \A i \in 1..Len(s) : s[i] # Slash
  THEN <<s>>
  ELSE LET i == CHOOSE k \in 1..Len(s) :
                  s[k] = Slash /\ \A j \in 1..(k - 1) : s[j] # Slash
       IN <<SubSeq(s, 1, i - 1)>> \o Split(SubSeq(s, i + 1, Len(s)))

(* ------------------------------------------------------------------ *)
(* Length codec                                                        *)
(* ------------------------------------------------------------------ *)
\* a plausible slip: the continuation bit is never set
RECURSIVE EncodeNoContinuation(_)
EncodeNoContinuation(length) ==
  IF length \div 128 > 0
  THEN <<length % 128>> \o EncodeNoContinuation(length \div 128)
  ELSE <<length % 128>>

\* MQTTBroker.encode_remaining_length
RECURSIVE encode_remaining_length(_)
encode_remaining_length(length) ==
  LET byte == length % 128
      rest == length \div 128
  IN IF rest > 0
     THEN <<byte + 128>> \o encode_remaining_length(rest)
     ELSE <<byte>>

\* a plausible slip: the continuation bit is not masked off
DecodeAccumulateNoMask(value, byte, multiplier) == value + byte * multiplier

\* value += (byte & 0x7F) * multiplier
decode_accumulate(value, byte, multiplier) == value + (byte % 128) * multiplier

\* MQTTBroker.decode_remaining_length reading a stream of bytes from the 0-based
\* position pos on: the value and the position after the field; ok is FALSE when
\* the stream ends inside the field (recv(1) returns b'' and [0] raises)
RECURSIVE DecodeFrom(_, _, _, _)
DecodeFrom(stream, pos, value, multiplier) ==
  IF pos >= Len(stream)
  THEN [ok |-> FALSE, value |-> value, pos |-> pos]
  ELSE LET byte == stream[pos + 1]
           v == decode_accumulate(value, byte, multiplier)
       IN IF byte < 128
          THEN [ok |-> TRUE, value |-> v, pos |-> pos + 1]
          ELSE DecodeFrom(stream, pos + 1, v, multiplier * 128)

decode_remaining_length(stream, pos) == DecodeFrom(stream, pos, 0, 1)

(* ------------------------------------------------------------------ *)
(* Topic matcher                                                       *)
(* ------------------------------------------------------------------ *)
\* a plausible slip: the final comparison of the segment counts is left out
RECURSIVE MatchLoopNoCount(_, _, _)
MatchLoopNoCount(topic_parts, pattern_parts, i) ==
  IF i > Len(pattern_parts)
  THEN TRUE
  ELSE IF pattern_parts[i] = <<Hash>> THEN TRUE
  ELSE IF i > Len(topic_parts) THEN FALSE
  ELSE IF pattern_parts[i] # <<Plus>> /\ pattern_parts[i] # topic_parts[i] THEN FALSE
  ELSE MatchLoopNoCount(topic_parts, pattern_parts, i + 1)

\* a plausible slip: the strict rule, '#' is a wildcard only as the last segment
RECURSIVE MatchLoopTrailingHash(_, _, _)
MatchLoopTrailingHash(topic_parts, pattern_parts, i) ==
  IF i > Len(pattern_parts)
  THEN Len(topic_parts) = Len(pattern_parts)
  ELSE IF pattern_parts[i] = <<Hash>> /\ i = Len(pattern_parts) THEN TRUE
  ELSE IF i > Len(topic_parts) THEN FALSE
  ELSE IF pattern_parts[i] # <<Plus>> /\ pattern_parts[i] # topic_parts[i] THEN FALSE
  ELSE MatchLoopTrailingHash(topic_parts, pattern_parts, i + 1)

\* the for loop of topic_matches from index i (1-based) on
RECURSIVE MatchLoop(_, _, _)
MatchLoop(topic_parts, pattern_parts, i) ==
  IF i > Len(pattern_parts)
  THEN Len(topic_parts) = Len(pattern_parts)
  ELSE IF pattern_parts[i] = <<Hash>> THEN TRUE
  ELSE IF i > Len(topic_parts) THEN FALSE
  ELSE IF pattern_parts[i] # <<Plus>> /\ pattern_parts[i] # topic_parts[i] THEN FALSE
  ELSE MatchLoop(topic_parts, pattern_parts, i + 1)

\* MQTTBroker.topic_matches
topic_matches(topic, pattern) ==
  IF pattern = <<Hash>> THEN TRUE
  ELSE LET topic_parts == Split(topic)
           pattern_parts == Split(pattern)
       IN IF /\ Len(pattern_parts) > Len(topic_parts)
             /\ \A i \in 1..Len(pattern_parts) : pattern_parts[i] # <<Hash>>
          THEN FALSE
          ELSE MatchLoop(topic_parts, pattern_parts, 1)

(* ------------------------------------------------------------------ *)
(* State                                                               *)
(* ------------------------------------------------------------------ *)
VARIABLES
  running,        \* MQTTBroker.running
  server,         \* position of start(): "init", "accepting" or "stopped"
  clients,        \* MQTTBroker.clients: connection -> [id, address]
  subscriptions,  \* MQTTBroker.subscriptions: filter string -> set of connections
  lock,           \* MQTTBroker.lock: 0 when free, else the connection whose handler holds it
  pc,             \* position of each connection's handle_client thread
  loc,            \* the local variables of each handler thread
  nread,          \* number of packets the handlers have read so far
  wire,           \* per connection, the frames passed to its socket's send(), in order
  registered,     \* observation: the (connection, filter) pairs whose registry update is done
  fwd,            \* observation of each handler's forward_publish call in progress
  codec,          \* the length codec exercised on its own (SpecCodec)
  matcher,        \* the topic matcher exercised on its own (SpecMatch)
  reader,         \* handle_client's reads off a byte stream, on their own (SpecFraming)
  parser          \* the serial link's FrameParser, on its own (SpecParser)

vars == <<running, server, clients, subscriptions, lock, pc, loc, nread, wire, registered, fwd, codec, matcher, reader, parser>>

\* the sockets the accept loop can return, in the order it returns them
Conns == 1..MaxConns

\* Python's None for msg_id, and for a local not assigned yet
None == -1

\* the locals of a handler thread between packets (req is an observation: the
\* (filter, QoS) pairs the peer put in the SUBSCRIBE being handled)
NoLocals ==
  [ client_id |-> <<>>, packet_type |-> None, flags |-> 0, qos |-> 0, topic |-> <<>>,
    msg_id |-> None, payload |-> <<>>, data |-> <<>>, pos |-> 0, return_codes |-> <<>>,
    subscribers |-> [c \in Conns |-> 0], publish_packet |-> <<>>,
    req |-> <<>> ]

\* the locals of a handler whose dispatch of a packet is over: client_id and
\* packet_type stay, the others are dead until the next packet assigns them
Dispatched(l) ==
  [NoLocals EXCEPT !.client_id = l.client_id, !.packet_type = l.packet_type]

\* nothing observed: no forward_publish call in progress, none made before
NoForward ==
  [ active |-> FALSE, atCall |-> {}, quietAtCall |-> {}, atLock |-> <<>>,
    begunAtLock |-> {}, sent |-> [c \in Conns |-> <<>>], failed |-> {},
    pubs |-> <<>>, log |-> <<>> ]

\* no forward_publish call in progress; what is kept of the calls the handler
\* has made: pubs, the (flags, topic, payload) of the PUBLISH packets it has
\* read, in order, and log, the writes of its forwards, in order, each with the
\* socket written to, the frame's place on that socket and the number in pubs
\* of the PUBLISH it was made for
Returned(f) == [NoForward EXCEPT !.pubs = f.pubs, !.log = f.log]

\* the handler of c has entered cleanup_client's critical section, or is past it
CleanupBegun(c) == pc[c] \in {"cleanup_locked", "cleanup_close", "closed"}

\* the handler of c is inside handle_subscribe
InSubscribe(c) == pc[c] \in {"sub_loop", "sub_lock"}

\* first_byte[0] & 0xF0
PacketType(first_byte) == (first_byte \div 16) * 16

\* (flags & 0x06) >> 1
QosOf(flags) == (flags \div 2) % 4

(* ------------------------------------------------------------------ *)
(* Packet parsing, as the handlers do it                               *)
(* ------------------------------------------------------------------ *)
\* a plausible slip: the keep-alive field is not skipped before the identifier
ParseConnectNoKeepAlive(data) ==
  LET proto_len == UnpackH(Slice(data, 0, 2))
      p1 == 2 + proto_len
      idlen_ok == UnpackHOk(Slice(data, p1 + 2, 2))
      client_id_len == IF idlen_ok THEN UnpackH(Slice(data, p1 + 2, 2)) ELSE 0
      id_bytes == Slice(data, p1 + 4, client_id_len)
      ok == idlen_ok /\ DecodeOk(id_bytes)
  IN [ok |-> ok, client_id |-> IF ok THEN Decode(id_bytes) ELSE <<>>]

\* handle_connect's parse: ok is FALSE where Python raises (struct.error on a
\* short slice, IndexError on data[pos], UnicodeDecodeError)
ParseConnect(data) ==
  LET proto_ok == UnpackHOk(Slice(data, 0, 2))
      proto_len == IF proto_ok THEN UnpackH(Slice(data, 0, 2)) ELSE 0
      p1 == 2 + proto_len
      name_ok == DecodeOk(Slice(data, 2, proto_len))
      level_ok == p1 < Len(data)
      flags_ok == p1 + 1 < Len(data)
      keep_ok == UnpackHOk(Slice(data, p1 + 2, 2))
      idlen_ok == UnpackHOk(Slice(data, p1 + 4, 2))
      client_id_len == IF idlen_ok THEN UnpackH(Slice(data, p1 + 4, 2)) ELSE 0
      id_bytes == Slice(data, p1 + 6, client_id_len)
      ok == proto_ok /\ name_ok /\ level_ok /\ flags_ok /\ keep_ok /\ idlen_ok
              /\ DecodeOk(id_bytes)
  IN [ok |-> ok, client_id |-> IF ok THEN Decode(id_bytes) ELSE <<>>]

\* handle_publish's parse (lines 157-173)
ParsePublish(flags, data) ==
  LET qos == QosOf(flags)
      len_ok == UnpackHOk(Slice(data, 0, 2))
      topic_len == IF len_ok THEN UnpackH(Slice(data, 0, 2)) ELSE 0
      topic_bytes == Slice(data, 2, topic_len)
      p1 == 2 + topic_len
      id_ok == qos = 0 \/ UnpackHOk(Slice(data, p1, 2))
      ok == len_ok /\ DecodeOk(topic_bytes) /\ id_ok
      msg_id == IF ok /\ qos > 0 THEN UnpackH(Slice(data, p1, 2)) ELSE None
      p2 == IF qos > 0 THEN p1 + 2 ELSE p1
  IN [ ok |-> ok, qos |-> qos,
       topic |-> IF ok THEN Decode(topic_bytes) ELSE <<>>,
       msg_id |-> msg_id,
       payload |-> IF ok THEN SliceFrom(data, p2) ELSE <<>> ]

\* one round of handle_subscribe's while loop up to the lock (lines 198-203)
ParseFilter(data, pos) ==
  LET len_ok == UnpackHOk(Slice(data, pos, 2))
      topic_len == IF len_ok THEN UnpackH(Slice(data, pos, 2)) ELSE 0
      topic_bytes == Slice(data, pos + 2, topic_len)
      p1 == pos + 2 + topic_len
      ok == len_ok /\ DecodeOk(topic_bytes) /\ p1 < Len(data)
  IN [ ok |-> ok,
       topic |-> IF ok THEN Decode(topic_bytes) ELSE <<>>,
       qos |-> IF ok THEN data[p1 + 1] ELSE 0,
       pos |-> p1 + 1 ]

(* ------------------------------------------------------------------ *)
(* Frames the broker builds                                            *)
(* ------------------------------------------------------------------ *)
\* bytes([CONNACK, 2, 0, 0])
ConnackFrame == <<CONNACK, 2, 0, 0>>

\* a plausible slip: the reply carries the request's type
PingrespEchoesRequest == <<PINGREQ, 0>>

\* bytes([PINGRESP, 0])
PingrespFrame == <<PINGRESP, 0>>

\* struct.pack(">BBH", PUBACK, 2, msg_id)
PubackFrame(msg_id) == <<PUBACK, 2>> \o PackH(msg_id)

\* struct.pack(">BBH", SUBACK, 2 + len(return_codes), msg_id) + bytes(return_codes)
SubackFrame(msg_id, return_codes) ==
  <<SUBACK, 2 + Len(return_codes)>> \o PackH(msg_id) \o return_codes

\* a plausible slip: the frame is forwarded at QoS 0, its QoS bits cleared
BuildPublishQos0(flags, topic, payload) ==
  LET topic_bytes == Encode(topic)
      remaining_length == 2 + Len(topic_bytes) + Len(payload)
  IN <<flags - 2 * QosOf(flags)>> \o encode_remaining_length(remaining_length)
       \o PackH(Len(topic_bytes)) \o topic_bytes \o payload

\* forward_publish's frame (lines 233-242)
BuildPublish(flags, topic, payload) ==
  LET topic_bytes == Encode(topic)
      placeholder == <<flags, 0>> \o PackH(Len(topic_bytes)) \o topic_bytes \o payload
      remaining_length == Len(placeholder) - 2
  IN <<flags>> \o encode_remaining_length(remaining_length)
       \o SubSeq(placeholder, 3, Len(placeholder))

(* ------------------------------------------------------------------ *)
(* Registry operations inside the lock                                 *)
(* ------------------------------------------------------------------ *)
\* self.subscriptions[topic].add(client_socket), on a defaultdict(set)
AddSubscription(subs, topic, c) ==
  [f \in DOMAIN subs \cup {topic} |->
     IF f = topic
     THEN (IF topic \in DOMAIN subs THEN subs[topic] ELSE {}) \cup {c}
     ELSE subs[f]]

\* a plausible slip: only the first registered filter is visited
DiscardFirstOnly(subs, c) ==
  IF DOMAIN subs = {} THEN subs
  ELSE LET first == CHOOSE f \in DOMAIN subs : TRUE
       IN [f \in DOMAIN subs |-> IF f = first THEN subs[f] \ {c} ELSE subs[f]]

\* a plausible slip: every filter's set is emptied
DiscardEveryone(subs, c) == [f \in DOMAIN subs |-> {}]

\* cleanup_client's loop: subscribers.discard(client_socket) for every filter
DiscardAll(subs, c) == [f \in DOMAIN subs |-> subs[f] \ {c}]

\* a plausible slip: the table entry is not deleted
KeepClient(tbl, c) == tbl

\* del self.clients[client_socket], when present
RemoveClient(tbl, c) == [k \in DOMAIN tbl \ {c} |-> tbl[k]]

\* a plausible slip: one send per matching filter (a list instead of a set)
SubscribersPerFilter(topic, subs) ==
  [c \in Conns |->
     Cardinality({f \in DOMAIN subs : topic_matches(topic, f) /\ c \in subs[f]})]

\* a plausible slip: the exact-string lookup alone, no wildcard pass
SubscribersExactOnly(topic, subs) ==
  [c \in Conns |-> IF topic \in DOMAIN subs /\ c \in subs[topic] THEN 1 ELSE 0]

\* a plausible slip: the test of topic_matches is left out of the loop
SubscribersAll(topic, subs) ==
  [c \in Conns |-> IF c \in UNION {subs[f] : f \in DOMAIN subs} THEN 1 ELSE 0]

\* forward_publish's set of subscribers (lines 222-231), as the number of
\* sends the loop of lines 245-249 owes each connection: a set holds a
\* connection once, whatever the number of filters that brought it in
Subscribers(topic, subs) ==
  LET exact == IF topic \in DOMAIN subs THEN subs[topic] ELSE {}
      wild == UNION {subs[f] : f \in {g \in DOMAIN subs : topic_matches(topic, g)}}
  IN [c \in Conns |-> IF c \in exact \cup wild THEN 1 ELSE 0]

(* ------------------------------------------------------------------ *)
(* Packets the peers send: [hdr |-> first byte, data |-> the payload]  *)
(* ------------------------------------------------------------------ *)
TopicAB == <<97, 47, 98>>
TopicAC == <<97, 47, 99>>
FilterAHash == <<97, 47, 35>>
ClientIdC == <<99>>
ClientIdD == <<100>>

MkConnect(id, protocol_level, connect_flags, keep_alive) ==
  [ hdr |-> CONNECT,
    data |-> PackH(4) \o <<77, 81, 84, 84>> \o <<protocol_level, connect_flags>>
               \o PackH(keep_alive) \o PackH(Len(id)) \o id ]

MkPublish(flags, topic, msg_id, payload) ==
  [ hdr |-> flags,
    data |-> PackH(Len(topic)) \o topic
               \o (IF QosOf(flags) > 0 THEN PackH(msg_id) ELSE <<>>) \o payload ]

\* the payload bytes of a list of (filter, QoS) pairs, built by halves
RECURSIVE FilterBytes(_)
FilterBytes(filters) ==
  IF filters = <<>> THEN <<>>
  ELSE IF Len(filters) = 1
  THEN PackH(Len(filters[1].filter)) \o filters[1].filter \o <<filters[1].qos>>
  ELSE LET half == Len(filters) \div 2
       IN FilterBytes(SubSeq(filters, 1, half))
            \o FilterBytes(SubSeq(filters, half + 1, Len(filters)))

\* req is the list of (filter, QoS) pairs the peer has put in the packet
MkSubscribe(msg_id, filters) ==
  [hdr |-> SUBSCRIBE + 2, data |-> PackH(msg_id) \o FilterBytes(filters),
   req |-> filters]

\* (flags, topic, packet identifier, payload) of the PUBLISH packets sent: QoS 0
\* to either topic, QoS 1, and QoS 1 with DUP and RETAIN set and the identifier 0
\* the length of the long payload, past the one-byte remaining lengths
LongLen == 130

LongPayload == [i \in 1..LongLen |-> i]

PublishKinds ==
  { <<48, TopicAB, 0, <<7, 255>> >>, <<48, TopicAC, 0, <<>> >>,
    <<50, TopicAB, 513, <<7, 255>> >>, <<59, TopicAC, 0, LongPayload>> }

PublishInputs == {MkPublish(k[1], k[2], k[3], k[4]) : k \in PublishKinds}

\* a SUBSCRIBE whose first filter, 'a/b', is whole and whose second is cut
\* off inside its 2-byte length
TruncatedSubscribe ==
  LET whole == MkSubscribe(2, << [filter |-> TopicAB, qos |-> 0] >>)
  IN [whole EXCEPT !.data = @ \o <<0>>]

SubscribeInputs ==
  { MkSubscribe(1, << [filter |-> TopicAB, qos |-> 0] >>),
    MkSubscribe(258, << [filter |-> TopicAB, qos |-> 0],
                        [filter |-> FilterAHash, qos |-> 1] >>),
    TruncatedSubscribe }

\* MQTT 3.1.1 with clean session, and a CONNECT of level 3 with every flag set,
\* keep-alive 0 and another identifier
ConnectInputs == {MkConnect(ClientIdC, 4, 2, 60), MkConnect(ClientIdD, 3, 255, 0)}

\* a QoS 0 PUBLISH whose topic length, 5, runs past the 3 bytes that follow it
OverrunPublish == [hdr |-> PUBLISH, data |-> <<0, 5>> \o TopicAB]

\* PINGREQ, DISCONNECT, a PUBACK (a type the dispatch does not list), a
\* PUBLISH too short to hold its topic length and the PUBLISH whose topic
\* length overruns
OtherInputs ==
  { [hdr |-> PINGREQ, data |-> <<>>], [hdr |-> DISCONNECT, data |-> <<>>],
    [hdr |-> PUBACK, data |-> <<0, 1>>], [hdr |-> PUBLISH, data |-> <<0>>],
    OverrunPublish }

Inputs == PublishInputs \cup SubscribeInputs \cup ConnectInputs \cup OtherInputs

(* ------------------------------------------------------------------ *)
(* The accept loop, start()                                            *)
(* ------------------------------------------------------------------ *)
\* self.running = True, bind and listen
Start ==
  /\ server = "init"
  /\ server' = "accepting"
  /\ running' = TRUE
  /\ UNCHANGED <<clients, subscriptions, lock, pc, loc, nread, wire, registered, fwd, codec, matcher, reader, parser>>

\* accept() returns a socket and a handler thread is started on it
Accept(c) ==
  /\ server = "accepting"
  /\ running
  /\ pc[c] = "idle"
  /\ \A d \in Conns : d < c => pc[d] # "idle"
  /\ pc' = [pc EXCEPT ![c] = "loop"]
  /\ UNCHANGED <<running, server, clients, subscriptions, lock, loc, nread, wire, registered, fwd, codec, matcher, reader, parser>>

\* KeyboardInterrupt: the finally clause clears running and closes the listening socket
Shutdown ==
  /\ server = "accepting"
  /\ server' = "stopped"
  /\ running' = FALSE
  /\ UNCHANGED <<clients, subscriptions, lock, pc, loc, nread, wire, registered, fwd, codec, matcher, reader, parser>>

(* ------------------------------------------------------------------ *)
(* handle_client: the read loop and the dispatch                       *)
(* ------------------------------------------------------------------ *)
\* a plausible slip: a frame overtakes the frames written before it
SendOvertaking(w, c, frame) == [w EXCEPT ![c] = <<frame>> \o @]

\* socket.send(frame) on connection c
Send(w, c, frame) == [w EXCEPT ![c] = Append(@, frame)]

\* while self.running:
LoopTest(c) ==
  /\ pc[c] = "loop"
  /\ pc' = [pc EXCEPT ![c] = IF running THEN "recv" ELSE "cleanup"]
  /\ UNCHANGED <<running, server, clients, subscriptions, lock, loc, nread, wire, registered, fwd, codec, matcher, reader, parser>>

\* recv(1) returns b'': the peer has closed
RecvEOF(c) ==
  /\ pc[c] = "recv"
  /\ pc' = [pc EXCEPT ![c] = "cleanup"]
  /\ UNCHANGED <<running, server, clients, subscriptions, lock, loc, nread, wire, registered, fwd, codec, matcher, reader, parser>>

\* a CONNECT is read: handle_connect parses it and sends CONNACK
RecvConnect(c, p) ==
  /\ pc[c] = "recv" /\ nread < MaxPackets
  /\ PacketType(p.hdr) = CONNECT
  /\ nread' = nread + 1
  /\ LET r == ParseConnect(p.data)
     IN IF r.ok
        THEN /\ wire' = Send(wire, c, ConnackFrame)
             /\ loc' = [loc EXCEPT ![c].packet_type = CONNECT, ![c].data = p.data,
                                   ![c].client_id = r.client_id]
             /\ pc' = [pc EXCEPT ![c] = "conn_lock"]
        ELSE /\ pc' = [pc EXCEPT ![c] = "cleanup"]
             /\ loc' = [loc EXCEPT ![c].packet_type = CONNECT]
             /\ UNCHANGED wire
  /\ UNCHANGED <<running, server, clients, subscriptions, lock, registered, fwd, codec, matcher, reader, parser>>

\* a plausible slip: the new connection takes the identifier over, and the
\* entries of other connections that use it are dropped
ConnRegisterTakeover(c) ==
  /\ pc[c] = "conn_lock" /\ lock = 0
  /\ LET kept == {k \in DOMAIN clients : clients[k].id # loc[c].client_id}
     IN clients' = [k \in kept \cup {c} |->
                      IF k = c THEN [id |-> loc[c].client_id, address |-> c] ELSE clients[k]]
  /\ loc' = [loc EXCEPT ![c] = Dispatched(loc[c])]
  /\ pc' = [pc EXCEPT ![c] = "loop"]
  /\ UNCHANGED <<running, server, subscriptions, lock, nread, wire, registered, fwd, codec, matcher, reader, parser>>

\* with self.lock: self.clients[client_socket] = {...}
ConnRegister(c) ==
  /\ pc[c] = "conn_lock" /\ lock = 0
  /\ clients' = [k \in DOMAIN clients \cup {c} |->
                   IF k = c THEN [id |-> loc[c].client_id, address |-> c] ELSE clients[k]]
  /\ loc' = [loc EXCEPT ![c] = Dispatched(loc[c])]
  /\ pc' = [pc EXCEPT ![c] = "loop"]
  /\ UNCHANGED <<running, server, subscriptions, lock, nread, wire, registered, fwd, codec, matcher, reader, parser>>

\* a PUBLISH is read: handle_publish parses it and calls forward_publish
RecvPublish(c, p) ==
  /\ pc[c] = "recv" /\ nread < MaxPackets
  /\ PacketType(p.hdr) = PUBLISH
  /\ nread' = nread + 1
  /\ LET r == ParsePublish(p.hdr, p.data)
     IN IF r.ok
        THEN /\ loc' = [loc EXCEPT ![c].packet_type = PUBLISH, ![c].data = p.data,
                                   ![c].flags = p.hdr, ![c].qos = r.qos,
                                   ![c].topic = r.topic, ![c].msg_id = r.msg_id,
                                   ![c].payload = r.payload]
             /\ fwd' = [fwd EXCEPT ![c] = [Returned(fwd[c]) EXCEPT
                                         !.active = TRUE,
                                         !.pubs = Append(@, [flags |-> p.hdr,
                                                             topic |-> r.topic,
                                                             payload |-> r.payload]),
                                         !.atCall = registered,
                                         !.quietAtCall = {d \in Conns : ~InSubscribe(d)}]]
             /\ pc' = [pc EXCEPT ![c] = "fwd_lock"]
        ELSE /\ pc' = [pc EXCEPT ![c] = "cleanup"]
             /\ loc' = [loc EXCEPT ![c].packet_type = PUBLISH, ![c].data = p.data]
             /\ UNCHANGED fwd
  /\ UNCHANGED <<running, server, clients, subscriptions, lock, wire, registered, codec, matcher, reader, parser>>

\* a plausible slip: the snapshot is taken without holding the lock
FwdLockNotHeld(c) ==
  /\ pc[c] = "fwd_lock"
  /\ loc' = [loc EXCEPT ![c].subscribers = Subscribers(loc[c].topic, subscriptions),
                        ![c].publish_packet =
                           BuildPublish(loc[c].flags, loc[c].topic, loc[c].payload)]
  /\ fwd' = [fwd EXCEPT ![c].atLock = subscriptions,
                        ![c].begunAtLock = {d \in Conns : CleanupBegun(d)}]
  /\ pc' = [pc EXCEPT ![c] = "fwd_send"]
  /\ UNCHANGED <<running, server, clients, subscriptions, lock, nread, wire, registered, codec, matcher, reader, parser>>

\* a plausible slip: the publisher's own socket is left out of the recipients
FwdLockSkipsSelf(c) ==
  /\ pc[c] = "fwd_lock" /\ lock = 0
  /\ lock' = c
  /\ loc' = [loc EXCEPT ![c].subscribers =
                           [Subscribers(loc[c].topic, subscriptions) EXCEPT ![c] = 0],
                        ![c].publish_packet =
                           BuildPublish(loc[c].flags, loc[c].topic, loc[c].payload)]
  /\ fwd' = [fwd EXCEPT ![c].atLock = subscriptions,
                        ![c].begunAtLock = {d \in Conns : CleanupBegun(d)}]
  /\ pc' = [pc EXCEPT ![c] = "fwd_send"]
  /\ UNCHANGED <<running, server, clients, subscriptions, nread, wire, registered, codec, matcher, reader, parser>>

\* forward_publish enters the lock, collects the subscribers and builds the frame
FwdLock(c) ==
  /\ pc[c] = "fwd_lock" /\ lock = 0
  /\ lock' = c
  /\ loc' = [loc EXCEPT ![c].subscribers = Subscribers(loc[c].topic, subscriptions),
                        ![c].publish_packet =
                           BuildPublish(loc[c].flags, loc[c].topic, loc[c].payload)]
  /\ fwd' = [fwd EXCEPT ![c].atLock = subscriptions,
                        ![c].begunAtLock = {d \in Conns : CleanupBegun(d)}]
  /\ pc' = [pc EXCEPT ![c] = "fwd_send"]
  /\ UNCHANGED <<running, server, clients, subscriptions, nread, wire, registered, codec, matcher, reader, parser>>

\* one round of "for subscriber in subscribers": subscriber.send() either
\* writes the frame or raises (the socket was closed by its handler, or the
\* peer has reset the connection); the bare except swallows the error and the
\* loop goes on
FwdSend(c, s) ==
  /\ pc[c] = "fwd_send"
  /\ loc[c].subscribers[s] > 0
  /\ loc' = [loc EXCEPT ![c].subscribers[s] = @ - 1]
  /\ \E raised \in (IF pc[s] = "closed" THEN {TRUE} ELSE BOOLEAN) :
       IF raised
       THEN /\ fwd' = [fwd EXCEPT ![c].failed = @ \cup {s}]
            /\ UNCHANGED wire
       ELSE /\ wire' = Send(wire, s, loc[c].publish_packet)
            /\ fwd' = [fwd EXCEPT ![c].sent[s] = Append(@, loc[c].publish_packet),
                                  ![c].log = Append(@, [to |-> s, at |-> Len(wire'[s]),
                                                        n |-> Len(fwd[c].pubs)])]
  /\ UNCHANGED <<running, server, clients, subscriptions, lock, pc, nread, registered, codec, matcher, reader, parser>>

\* a plausible slip: the lock is not released when forward_publish returns
FwdReleaseKeepsLock(c) ==
  /\ pc[c] = "fwd_send" /\ lock = c
  /\ \A s \in Conns : loc[c].subscribers[s] = 0
  /\ pc' = [pc EXCEPT ![c] = "puback"]
  /\ UNCHANGED <<running, server, clients, subscriptions, lock, loc, nread, wire, registered, fwd, codec, matcher, reader, parser>>

\* the loop is over: forward_publish leaves the lock and returns
FwdRelease(c) ==
  /\ pc[c] = "fwd_send" /\ lock = c
  /\ \A s \in Conns : loc[c].subscribers[s] = 0
  /\ lock' = 0
  /\ pc' = [pc EXCEPT ![c] = "puback"]
  /\ UNCHANGED <<running, server, clients, subscriptions, loc, nread, wire, registered, fwd, codec, matcher, reader, parser>>

\* if qos == 1 and msg_id: send PUBACK; handle_publish returns
PubAck(c) ==
  /\ pc[c] = "puback"
  /\ wire' = IF loc[c].qos = 1 /\ loc[c].msg_id # 0
             THEN Send(wire, c, PubackFrame(loc[c].msg_id))
             ELSE wire
  /\ loc' = [loc EXCEPT ![c] = Dispatched(loc[c])]
  /\ fwd' = [fwd EXCEPT ![c] = Returned(fwd[c])]
  /\ pc' = [pc EXCEPT ![c] = "loop"]
  /\ UNCHANGED <<running, server, clients, subscriptions, lock, nread, registered, codec, matcher, reader, parser>>

\* a SUBSCRIBE is read: handle_subscribe unpacks the packet identifier
RecvSubscribe(c, p) ==
  /\ pc[c] = "recv" /\ nread < MaxPackets
  /\ PacketType(p.hdr) = SUBSCRIBE
  /\ nread' = nread + 1
  /\ IF UnpackHOk(Slice(p.data, 0, 2))
     THEN /\ loc' = [loc EXCEPT ![c].packet_type = SUBSCRIBE,
                                ![c].data = p.data, ![c].pos = 2, ![c].req = p.req,
                                ![c].msg_id = UnpackH(Slice(p.data, 0, 2)),
                                ![c].return_codes = <<>>]
          /\ pc' = [pc EXCEPT ![c] = "sub_loop"]
     ELSE /\ pc' = [pc EXCEPT ![c] = "cleanup"]
          /\ loc' = [loc EXCEPT ![c].packet_type = SUBSCRIBE]
  /\ UNCHANGED <<running, server, clients, subscriptions, lock, wire, registered, fwd, codec, matcher, reader, parser>>

\* while pos < len(data): parse one (filter, qos) pair
SubParse(c) ==
  /\ pc[c] = "sub_loop"
  /\ loc[c].pos < Len(loc[c].data)
  /\ LET r == ParseFilter(loc[c].data, loc[c].pos)
     IN IF r.ok
        THEN /\ loc' = [loc EXCEPT ![c].topic = r.topic, ![c].qos = r.qos,
                                   ![c].pos = r.pos]
             /\ pc' = [pc EXCEPT ![c] = "sub_lock"]
        ELSE /\ pc' = [pc EXCEPT ![c] = "cleanup"]
             /\ UNCHANGED loc
  /\ UNCHANGED <<running, server, clients, subscriptions, lock, nread, wire, registered, fwd, codec, matcher, reader, parser>>

\* with self.lock: self.subscriptions[topic].add(client_socket); the code is granted
SubAdd(c) ==
  /\ pc[c] = "sub_lock" /\ lock = 0
  /\ subscriptions' = AddSubscription(subscriptions, loc[c].topic, c)
  /\ loc' = [loc EXCEPT ![c].return_codes = Append(@, loc[c].qos)]
  /\ registered' = registered \cup {<<c, loc[c].topic>>}
  /\ pc' = [pc EXCEPT ![c] = "sub_loop"]
  /\ UNCHANGED <<running, server, clients, lock, nread, wire, fwd, codec, matcher, reader, parser>>

\* the payload is exhausted: SUBACK is packed (struct.error if 2 + n > 255) and sent
SubAck(c) ==
  /\ pc[c] = "sub_loop"
  /\ loc[c].pos >= Len(loc[c].data)
  /\ IF 2 + Len(loc[c].return_codes) <= 255
     THEN /\ wire' = Send(wire, c, SubackFrame(loc[c].msg_id, loc[c].return_codes))
          /\ pc' = [pc EXCEPT ![c] = "loop"]
     ELSE /\ pc' = [pc EXCEPT ![c] = "cleanup"]
          /\ UNCHANGED wire
  /\ loc' = [loc EXCEPT ![c] = Dispatched(loc[c])]
  /\ UNCHANGED <<running, server, clients, subscriptions, lock, nread, registered, fwd, codec, matcher, reader, parser>>

\* a plausible slip: a PINGREQ from a connection that has sent no CONNECT ends
\* the handler
RecvPingreqConnectFirst(c, p) ==
  /\ pc[c] = "recv" /\ nread < MaxPackets
  /\ PacketType(p.hdr) = PINGREQ
  /\ nread' = nread + 1
  /\ wire' = IF c \in DOMAIN clients THEN Send(wire, c, PingrespFrame) ELSE wire
  /\ loc' = [loc EXCEPT ![c].packet_type = PINGREQ]
  /\ pc' = [pc EXCEPT ![c] = IF c \in DOMAIN clients THEN "loop" ELSE "cleanup"]
  /\ UNCHANGED <<running, server, clients, subscriptions, lock, registered, fwd, codec, matcher, reader, parser>>

\* a PINGREQ is read: send_pingresp
RecvPingreq(c, p) ==
  /\ pc[c] = "recv" /\ nread < MaxPackets
  /\ PacketType(p.hdr) = PINGREQ
  /\ nread' = nread + 1
  /\ wire' = Send(wire, c, PingrespFrame)
  /\ loc' = [loc EXCEPT ![c].packet_type = PINGREQ]
  /\ pc' = [pc EXCEPT ![c] = "loop"]
  /\ UNCHANGED <<running, server, clients, subscriptions, lock, registered, fwd, codec, matcher, reader, parser>>

\* a DISCONNECT is read: break
RecvDisconnect(c, p) ==
  /\ pc[c] = "recv" /\ nread < MaxPackets
  /\ PacketType(p.hdr) = DISCONNECT
  /\ nread' = nread + 1
  /\ loc' = [loc EXCEPT ![c].packet_type = DISCONNECT]
  /\ pc' = [pc EXCEPT ![c] = "cleanup"]
  /\ UNCHANGED <<running, server, clients, subscriptions, lock, wire, registered, fwd, codec, matcher, reader, parser>>

\* a packet of a type no branch of the if/elif chain names: the loop goes on
RecvOther(c, p) ==
  /\ pc[c] = "recv" /\ nread < MaxPackets
  /\ PacketType(p.hdr) \notin {CONNECT, PUBLISH, SUBSCRIBE, PINGREQ, DISCONNECT}
  /\ nread' = nread + 1
  /\ loc' = [loc EXCEPT ![c].packet_type = PacketType(p.hdr)]
  /\ pc' = [pc EXCEPT ![c] = "loop"]
  /\ UNCHANGED <<running, server, clients, subscriptions, lock, wire, registered, fwd, codec, matcher, reader, parser>>

(* ------------------------------------------------------------------ *)
(* cleanup_client, run from handle_client's finally clause             *)
(* ------------------------------------------------------------------ *)
\* a plausible slip: cleanup_client does not take the lock
CleanupLockNotHeld(c) ==
  /\ pc[c] = "cleanup"
  /\ loc' = [loc EXCEPT ![c] = NoLocals]
  /\ fwd' = [fwd EXCEPT ![c] = NoForward]
  /\ pc' = [pc EXCEPT ![c] = "cleanup_locked"]
  /\ UNCHANGED <<running, server, clients, subscriptions, lock, nread, wire, registered, codec, matcher, reader, parser>>

\* with self.lock:
CleanupLock(c) ==
  /\ pc[c] = "cleanup" /\ lock = 0
  /\ lock' = c
  /\ loc' = [loc EXCEPT ![c] = NoLocals]
  /\ fwd' = [fwd EXCEPT ![c] = NoForward]
  /\ pc' = [pc EXCEPT ![c] = "cleanup_locked"]
  /\ UNCHANGED <<running, server, clients, subscriptions, nread, wire, registered, codec, matcher, reader, parser>>

\* inside the lock: discard the socket from every filter's set, delete its
\* table entry when it has one, and leave the lock
CleanupRemove(c) ==
  /\ pc[c] = "cleanup_locked" /\ lock = c
  /\ subscriptions' = DiscardAll(subscriptions, c)
  /\ clients' = IF c \in DOMAIN clients THEN RemoveClient(clients, c) ELSE clients
  /\ lock' = 0
  /\ pc' = [pc EXCEPT ![c] = "cleanup_close"]
  /\ UNCHANGED <<running, server, loc, nread, wire, registered, fwd, codec, matcher, reader, parser>>

\* client_socket.close(); the thread ends
CleanupClose(c) ==
  /\ pc[c] = "cleanup_close"
  /\ pc' = [pc EXCEPT ![c] = "closed"]
  /\ UNCHANGED <<running, server, clients, subscriptions, lock, loc, nread, wire, registered, fwd, codec, matcher, reader, parser>>

(* ------------------------------------------------------------------ *)
(* The broker                                                          *)
(* ------------------------------------------------------------------ *)
\* the codec exerciser is not used in the broker's specification
CodecIdle ==
  [pc |-> "off", n |-> 0, stream |-> <<>>, enclen |-> 0, pos |-> 0, value |-> 0,
   multiplier |-> 1]

\* the stream reader is not used in the broker's specification.  stream is
\* what the peer sends before it closes and pos the number of bytes read so
\* far; first_byte, value, multiplier and data are the locals of handle_client
\* and decode_remaining_length; at, nlen, eof_in_length and dispatched are
\* observations: where the header byte was read, the number of length bytes
\* read, whether the stream ended inside the length field, and the packets
\* handed to the dispatch
ReaderIdle ==
  [ stage |-> "off", stream |-> <<>>, pos |-> 0, first_byte |-> 0, value |-> 0,
    multiplier |-> 1, data |-> <<>>, at |-> 0, nlen |-> 0, eof_in_length |-> FALSE,
    dispatched |-> <<>> ]

\* FrameParser.__init__; observations: the bytes to be fed, what send_frame
\* was given if it built them, the bytes processed, the end of the current
\* feed call's data, whether feed was called more than once, and the
\* callback's calls
ParserNew ==
  [ state |-> "WAIT_START", msg_type |-> 0, length |-> 0, payload |-> <<>>,
    checksum |-> 0,
    input |-> <<>>, sent |-> <<>>, pos |-> 0, fed |-> 0, split |-> FALSE, calls |-> <<>> ]

\* the parser is not used in the broker's specification
ParserIdle == [ParserNew EXCEPT !.state = "off"]

\* the matcher exerciser is not used in the broker's specification
MatcherIdle ==
  [pc |-> "off", topic_parts |-> <<>>, pattern_parts |-> <<>>, topic |-> <<>>,
   pattern |-> <<>>, result |-> FALSE]

\* MQTTBroker.__init__
InitBroker ==
  /\ running = FALSE
  /\ server = "init"
  /\ clients = <<>>
  /\ subscriptions = <<>>
  /\ lock = 0
  /\ pc = [c \in Conns |-> "idle"]
  /\ loc = [c \in Conns |-> NoLocals]
  /\ nread = 0
  /\ wire = [c \in Conns |-> <<>>]
  /\ registered = {}
  /\ fwd = [c \in Conns |-> NoForward]

Init ==
  /\ InitBroker
  /\ codec = CodecIdle /\ matcher = MatcherIdle /\ reader = ReaderIdle
  /\ parser = ParserIdle

Next ==
  \/ Start
  \/ Shutdown
  \/ \E c \in Conns : Accept(c)
  \/ \E c \in Conns : LoopTest(c)
  \/ \E c \in Conns : RecvEOF(c)
  \/ \E c \in Conns, p \in Inputs : RecvConnect(c, p)
  \/ \E c \in Conns : ConnRegister(c)
  \/ \E c \in Conns, p \in Inputs : RecvPublish(c, p)
  \/ \E c \in Conns : FwdLock(c)
  \/ \E c \in Conns, s \in Conns : FwdSend(c, s)
  \/ \E c \in Conns : FwdRelease(c)
  \/ \E c \in Conns : PubAck(c)
  \/ \E c \in Conns, p \in Inputs : RecvSubscribe(c, p)
  \/ \E c \in Conns : SubParse(c)
  \/ \E c \in Conns : SubAdd(c)
  \/ \E c \in Conns : SubAck(c)
  \/ \E c \in Conns, p \in Inputs : RecvPingreq(c, p)
  \/ \E c \in Conns, p \in Inputs : RecvDisconnect(c, p)
  \/ \E c \in Conns, p \in Inputs : RecvOther(c, p)
  \/ \E c \in Conns : CleanupLock(c)
  \/ \E c \in Conns : CleanupRemove(c)
  \/ \E c \in Conns : CleanupClose(c)

Spec == Init /\ [][Next]_vars

\* the steps the handler thread of c takes by itself, without a packet from the
\* peer: each of them returns (a lock that is free is acquired, a send on a
\* socket returns or raises)
HandlerStep(c) ==
  \/ LoopTest(c)
  \/ ConnRegister(c)
  \/ FwdLock(c)
  \/ \E s \in Conns : FwdSend(c, s)
  \/ FwdRelease(c)
  \/ PubAck(c)
  \/ SubParse(c)
  \/ SubAdd(c)
  \/ SubAck(c)
  \/ CleanupLock(c)
  \/ CleanupRemove(c)
  \/ CleanupClose(c)

\* one packet of each kind: CONNECT, SUBSCRIBE to 'a/b', PUBLISH to 'a/b',
\* PINGREQ, DISCONNECT, PUBACK and the PUBLISH too short to parse
FairInputs ==
  { MkConnect(ClientIdC, 4, 2, 60),
    MkSubscribe(1, << [filter |-> TopicAB, qos |-> 0] >>),
    MkPublish(48, TopicAB, 0, <<7, 255>>),
    [hdr |-> PINGREQ, data |-> <<>>], [hdr |-> DISCONNECT, data |-> <<>>],
    [hdr |-> PUBACK, data |-> <<0, 1>>], [hdr |-> PUBLISH, data |-> <<0>>] }

\* the broker's steps, the peers sending the packets of FairInputs
NextFair ==
  \/ Start
  \/ Shutdown
  \/ \E c \in Conns : Accept(c)
  \/ \E c \in Conns : LoopTest(c)
  \/ \E c \in Conns : RecvEOF(c)
  \/ \E c \in Conns, p \in FairInputs : RecvConnect(c, p)
  \/ \E c \in Conns : ConnRegister(c)
  \/ \E c \in Conns, p \in FairInputs : RecvPublish(c, p)
  \/ \E c \in Conns : FwdLock(c)
  \/ \E c \in Conns, s \in Conns : FwdSend(c, s)
  \/ \E c \in Conns : FwdRelease(c)
  \/ \E c \in Conns : PubAck(c)
  \/ \E c \in Conns, p \in FairInputs : RecvSubscribe(c, p)
  \/ \E c \in Conns : SubParse(c)
  \/ \E c \in Conns : SubAdd(c)
  \/ \E c \in Conns : SubAck(c)
  \/ \E c \in Conns, p \in FairInputs : RecvPingreq(c, p)
  \/ \E c \in Conns, p \in FairInputs : RecvDisconnect(c, p)
  \/ \E c \in Conns, p \in FairInputs : RecvOther(c, p)
  \/ \E c \in Conns : CleanupLock(c)
  \/ \E c \in Conns : CleanupRemove(c)
  \/ \E c \in Conns : CleanupClose(c)

\* every handler thread is scheduled: a thread that can take a step of its own
\* takes one
FairSpec == Init /\ [][NextFair]_vars /\ \A c \in Conns : WF_vars(HandlerStep(c))

(* ------------------------------------------------------------------ *)
(* One connection sending SUBSCRIBE packets of few and of many filters *)
(* ------------------------------------------------------------------ *)
\* the largest number of filters in one SUBSCRIBE packet
MaxFilters == 254

\* n times the filter 'a', the requested QoS bytes going 1, 2, 0, 1, 2, 0, ...
ManyFilters(n) == [i \in 1..n |-> [filter |-> <<97>>, qos |-> i % 3]]

\* SUBSCRIBE packets with no filter, one filter, and MaxFilters - 1 and
\* MaxFilters filters
ManySubscribeInputs ==
  { MkSubscribe(7, ManyFilters(n)) : n \in {0, 1, MaxFilters - 1, MaxFilters} }

NextSubscribe ==
  \/ Start
  \/ Shutdown
  \/ Accept(1)
  \/ LoopTest(1)
  \/ RecvEOF(1)
  \/ \E p \in ManySubscribeInputs : RecvSubscribe(1, p)
  \/ SubParse(1)
  \/ SubAdd(1)
  \/ SubAck(1)
  \/ CleanupLock(1)
  \/ CleanupRemove(1)
  \/ CleanupClose(1)

SpecSubscribe == Init /\ [][NextSubscribe]_vars

(* ------------------------------------------------------------------ *)
(* The length codec on its own: encode a length, then decode the bytes *)
(* off a stream in which other bytes follow                            *)
(* ------------------------------------------------------------------ *)
\* the largest length tried (2^28 - 1, the largest a four-byte field holds)
MaxLength == 268435455

\* lengths tried: the small ones, and those around each change of byte count
CodecInputs ==
  (0..MaxSmall) \cup
  { 126, 127, 128, 129, 300, 16382, 16383, 16384, 16385, 20000, 2097150, 2097151,
    2097152, 2097153, 3000000, MaxLength - 1, MaxLength }

\* what follows the length field in the stream
CodecTrailers == { <<>>, <<133, 1>>, <<0>> }

InitCodec ==
  /\ InitBroker
  /\ matcher = MatcherIdle
  /\ reader = ReaderIdle
  /\ parser = ParserIdle
  /\ codec \in { [pc |-> "input", n |-> n, stream |-> t, enclen |-> 0, pos |-> 0,
                  value |-> 0, multiplier |-> 1] :
                 n \in CodecInputs, t \in CodecTrailers }

\* encode_remaining_length(n) is put on the stream, before what follows
CodecEncode ==
  /\ codec.pc = "input"
  /\ LET enc == encode_remaining_length(codec.n)
     IN codec' = [codec EXCEPT !.pc = "decode", !.stream = enc \o codec.stream,
                               !.enclen = Len(enc)]
  /\ UNCHANGED <<running, server, clients, subscriptions, lock, pc, loc, nread, wire,
                 registered, fwd, matcher, reader, parser>>

\* one round of decode_remaining_length's while loop
CodecDecodeByte ==
  /\ codec.pc = "decode"
  /\ IF codec.pos >= Len(codec.stream)
     THEN codec' = [codec EXCEPT !.pc = "error"]
     ELSE LET byte == codec.stream[codec.pos + 1]
          IN codec' = [codec EXCEPT
                         !.value = decode_accumulate(codec.value, byte, codec.multiplier),
                         !.pos = codec.pos + 1,
                         !.multiplier = IF byte >= 128 THEN codec.multiplier * 128
                                        ELSE codec.multiplier,
                         !.pc = IF byte >= 128 THEN "decode" ELSE "done"]
  /\ UNCHANGED <<running, server, clients, subscriptions, lock, pc, loc, nread, wire,
                 registered, fwd, matcher, reader, parser>>

NextCodec == CodecEncode \/ CodecDecodeByte

SpecCodec == InitCodec /\ [][NextCodec]_vars

(* ------------------------------------------------------------------ *)
(* The topic matcher on its own: a topic and a filter are built from   *)
(* segments and topic_matches is applied to the two strings            *)
(* ------------------------------------------------------------------ *)
\* the largest number of segments of a topic or of a filter
MaxSegs == 3

\* the segments 'a', 'b', 'c', '+' and '#'
Segments == { <<97>>, <<98>>, <<99>>, <<Plus>>, <<Hash>> }

\* '/'.join(parts)
RECURSIVE Join(_)
Join(parts) ==
  IF Len(parts) = 1 THEN parts[1]
  ELSE parts[1] \o <<Slash>> \o Join(Tail(parts))

\* the segment lists tried: every list of 1..MaxSegs segments, and the lists
\* with an empty segment ('', '/a', 'a/', 'a//b')
MatcherInputs ==
  (UNION { [1..n -> Segments] : n \in 1..MaxSegs })
    \cup { << <<>> >>, << <<>>, <<97>> >>, << <<97>>, <<>> >>, << <<97>>, <<>>, <<98>> >> }

InitMatch ==
  /\ InitBroker
  /\ codec = CodecIdle
  /\ reader = ReaderIdle
  /\ parser = ParserIdle
  /\ matcher \in { [pc |-> "input", topic_parts |-> t, pattern_parts |-> f,
                    topic |-> Join(t), pattern |-> Join(f), result |-> FALSE] :
                   t \in MatcherInputs, f \in MatcherInputs }

\* topic_matches(topic, pattern) is called
MatchCall ==
  /\ matcher.pc = "input"
  /\ matcher' = [matcher EXCEPT !.pc = "done",
                                !.result = topic_matches(matcher.topic, matcher.pattern)]
  /\ UNCHANGED <<running, server, clients, subscriptions, lock, pc, loc, nread, wire,
                 registered, fwd, codec, reader, parser>>

NextMatch == MatchCall

SpecMatch == InitMatch /\ [][NextMatch]_vars

(* ------------------------------------------------------------------ *)
(* handle_client's reads on their own: one handler reads a byte stream *)
(* the peer has sent and then closed                                   *)
(* ------------------------------------------------------------------ *)
\* the largest number of frames the peer puts on the stream
MaxFrames == 2

\* a packet as the peer frames it: header byte, remaining length, payload
Frame(p) == <<p.hdr>> \o encode_remaining_length(Len(p.data)) \o p.data

\* a PINGREQ whose remaining length 0 is spelt in five bytes, the fourth with
\* its continuation bit set
OverlongPingreq == <<PINGREQ, 128, 128, 128, 128, 0>>

\* the frames sent: PINGREQ, DISCONNECT, a PUBLISH of 'a/b' with two payload
\* bytes and one with the long payload, a SUBSCRIBE, and the overlong PINGREQ
StreamFrames ==
  { Frame([hdr |-> PINGREQ, data |-> <<>>]),
    Frame([hdr |-> DISCONNECT, data |-> <<>>]),
    Frame(MkPublish(48, TopicAB, 0, <<7, 255>>)),
    Frame(MkPublish(48, TopicAB, 0, LongPayload)),
    Frame(MkSubscribe(1, << [filter |-> TopicAB, qos |-> 0] >>)),
    OverlongPingreq }

RECURSIVE Concat(_)
Concat(frames) == IF frames = <<>> THEN <<>> ELSE frames[1] \o Concat(Tail(frames))

\* the streams read: 1..MaxFrames frames, whole or cut where the peer closes
FramingStreams ==
  LET whole == { Concat(fs) : fs \in UNION { [1..n -> StreamFrames] : n \in 1..MaxFrames } }
  IN UNION { { SubSeq(w, 1, k) : k \in 1..Len(w) } : w \in whole }

\* the numbers of bytes recv(n) may return when avail > 0 bytes are there to be
\* had: all it can give, or fewer
RecvSizes(n, avail) ==
  LET most == Min(n, avail)
  IN { k \in {1, n \div 2, n - 1, most} : 1 <= k /\ k <= most }

\* every filter of a SUBSCRIBE payload parses, from the 0-based position pos on
RECURSIVE SubscribeParses(_, _)
SubscribeParses(data, pos) ==
  IF pos >= Len(data) THEN TRUE
  ELSE LET r == ParseFilter(data, pos)
       IN r.ok /\ SubscribeParses(data, r.pos)

\* the handler called for a packet returns without raising
HandlerReturns(first_byte, data) ==
  LET packet_type == PacketType(first_byte)
  IN IF packet_type = CONNECT THEN ParseConnect(data).ok
     ELSE IF packet_type = PUBLISH THEN ParsePublish(first_byte, data).ok
     ELSE IF packet_type = SUBSCRIBE
     THEN UnpackHOk(Slice(data, 0, 2)) /\ SubscribeParses(data, 2)
     ELSE TRUE

InitFraming ==
  /\ InitBroker
  /\ codec = CodecIdle
  /\ matcher = MatcherIdle
  /\ parser = ParserIdle
  /\ reader \in { [ReaderIdle EXCEPT !.stage = "header", !.stream = st] :
                  st \in FramingStreams }

\* Python's integers have no width; the reader's stand for themselves below
\* HugeLength, and HugeLength stands for every greater value: a recv of that
\* many bytes returns what the stream has, whatever the number
HugeLength == 1073741824

\* multiplier *= 128
NextMultiplier(multiplier) ==
  IF multiplier >= 268435456 THEN HugeLength ELSE multiplier * 128

\* value += (byte & 0x7F) * multiplier
Accumulate(value, byte, multiplier) ==
  IF multiplier >= HugeLength
  THEN (IF byte % 128 = 0 THEN value ELSE HugeLength)
  ELSE IF multiplier >= 268435456 /\ byte % 128 >= 4
  THEN HugeLength
  ELSE Min(HugeLength, decode_accumulate(value, byte, multiplier))

\* first_byte = client_socket.recv(1); if not first_byte: break
ReaderRecvHeader ==
  /\ reader.stage = "header"
  /\ IF reader.pos >= Len(reader.stream)
     THEN reader' = [reader EXCEPT !.stage = "cleanup"]
     ELSE reader' = [reader EXCEPT !.stage = "length",
                                   !.first_byte = reader.stream[reader.pos + 1],
                                   !.at = reader.pos, !.pos = reader.pos + 1,
                                   !.value = 0, !.multiplier = 1, !.nlen = 0]
  /\ UNCHANGED <<running, server, clients, subscriptions, lock, pc, loc, nread, wire,
                 registered, fwd, codec, matcher, parser>>

\* a plausible slip: at the end of the stream the decoder returns what it has
ReaderLengthEofReturns ==
  /\ reader.stage = "length"
  /\ IF reader.pos >= Len(reader.stream)
     THEN reader' = [reader EXCEPT !.stage = "data"]
     ELSE LET byte == reader.stream[reader.pos + 1]
          IN reader' = [reader EXCEPT
                          !.value = Accumulate(reader.value, byte, reader.multiplier),
                          !.pos = reader.pos + 1, !.nlen = reader.nlen + 1,
                          !.multiplier = IF byte >= 128 THEN NextMultiplier(reader.multiplier)
                                         ELSE reader.multiplier,
                          !.stage = IF byte >= 128 THEN "length" ELSE "data"]
  /\ UNCHANGED <<running, server, clients, subscriptions, lock, pc, loc, nread, wire,
                 registered, fwd, codec, matcher, parser>>

\* one round of decode_remaining_length's loop: sock.recv(1)[0] raises
\* IndexError when the stream has ended, and handle_client's except clause
\* leads to cleanup
ReaderRecvLength ==
  /\ reader.stage = "length"
  /\ IF reader.pos >= Len(reader.stream)
     THEN reader' = [reader EXCEPT !.stage = "cleanup", !.eof_in_length = TRUE]
     ELSE LET byte == reader.stream[reader.pos + 1]
          IN reader' = [reader EXCEPT
                          !.value = Accumulate(reader.value, byte, reader.multiplier),
                          !.pos = reader.pos + 1, !.nlen = reader.nlen + 1,
                          !.multiplier = IF byte >= 128 THEN NextMultiplier(reader.multiplier)
                                         ELSE reader.multiplier,
                          !.stage = IF byte >= 128 THEN "length" ELSE "data"]
  /\ UNCHANGED <<running, server, clients, subscriptions, lock, pc, loc, nread, wire,
                 registered, fwd, codec, matcher, parser>>

\* data = client_socket.recv(remaining_length) if remaining_length > 0 else b'':
\* one recv, which returns at most remaining_length bytes, and b'' when the
\* stream has ended
ReaderRecvData ==
  /\ reader.stage = "data"
  /\ LET avail == Len(reader.stream) - reader.pos
     IN IF reader.value > 0 /\ avail > 0
        THEN \E k \in RecvSizes(reader.value, avail) :
               reader' = [reader EXCEPT !.data = Slice(reader.stream, reader.pos, k),
                                        !.pos = reader.pos + k, !.stage = "dispatch"]
        ELSE reader' = [reader EXCEPT !.data = <<>>, !.stage = "dispatch"]
  /\ UNCHANGED <<running, server, clients, subscriptions, lock, pc, loc, nread, wire,
                 registered, fwd, codec, matcher, parser>>

\* the if/elif chain: the packet is handed to its handler; DISCONNECT breaks,
\* a handler that raises ends the loop, anything else goes round again
ReaderDispatch ==
  /\ reader.stage = "dispatch"
  /\ reader' = [reader EXCEPT
                  !.dispatched = Append(@, [hdr |-> reader.first_byte,
                                            data |-> reader.data, at |-> reader.at]),
                  !.stage = IF \/ PacketType(reader.first_byte) = DISCONNECT
                               \/ ~HandlerReturns(reader.first_byte, reader.data)
                            THEN "cleanup" ELSE "header"]
  /\ UNCHANGED <<running, server, clients, subscriptions, lock, pc, loc, nread, wire,
                 registered, fwd, codec, matcher, parser>>

NextFraming ==
  \/ ReaderRecvHeader
  \/ ReaderRecvLength
  \/ ReaderRecvData
  \/ ReaderDispatch

SpecFraming == InitFraming /\ [][NextFraming]_vars

(* ------------------------------------------------------------------ *)
(* Two connections that use one client identifier                     *)
(* ------------------------------------------------------------------ *)
\* the number of packets the handlers read when both connections send the
\* same CONNECT
SameIdPackets == 5

\* the CONNECT with identifier 'c', a SUBSCRIBE to 'a/b' and a PUBLISH to it
SameIdInputs ==
  { MkConnect(ClientIdC, 4, 2, 60),
    MkSubscribe(1, << [filter |-> TopicAB, qos |-> 0] >>),
    MkPublish(48, TopicAB, 0, <<7, 255>>) }

\* the broker as constructed; the count of packets read starts as far below
\* MaxPackets as lets the handlers read SameIdPackets packets
InitSameId ==
  /\ running = FALSE
  /\ server = "init"
  /\ clients = <<>>
  /\ subscriptions = <<>>
  /\ lock = 0
  /\ pc = [c \in Conns |-> "idle"]
  /\ loc = [c \in Conns |-> NoLocals]
  /\ nread = MaxPackets - SameIdPackets
  /\ wire = [c \in Conns |-> <<>>]
  /\ registered = {}
  /\ fwd = [c \in Conns |-> NoForward]
  /\ codec = CodecIdle /\ matcher = MatcherIdle /\ reader = ReaderIdle
  /\ parser = ParserIdle

NextSameId ==
  \/ Start
  \/ \E c \in Conns : Accept(c)
  \/ \E c \in Conns : LoopTest(c)
  \/ \E c \in Conns : RecvEOF(c)
  \/ \E c \in Conns, p \in SameIdInputs : RecvConnect(c, p)
  \/ \E c \in Conns : ConnRegister(c)
  \/ \E c \in Conns, p \in SameIdInputs : RecvPublish(c, p)
  \/ \E c \in Conns : FwdLock(c)
  \/ \E c \in Conns, s \in Conns : FwdSend(c, s)
  \/ \E c \in Conns : FwdRelease(c)
  \/ \E c \in Conns : PubAck(c)
  \/ \E c \in Conns, p \in SameIdInputs : RecvSubscribe(c, p)
  \/ \E c \in Conns : SubParse(c)
  \/ \E c \in Conns : SubAdd(c)
  \/ \E c \in Conns : SubAck(c)
  \/ \E c \in Conns : CleanupLock(c)
  \/ \E c \in Conns : CleanupRemove(c)
  \/ \E c \in Conns : CleanupClose(c)

SpecSameId == InitSameId /\ [][NextSameId]_vars

(* ------------------------------------------------------------------ *)
(* The serial link: calc_checksum, ReactorAgent.send_frame and         *)
(* FrameParser, fed a byte sequence in one or several feed calls       *)
(* ------------------------------------------------------------------ *)
FRAME_START_BYTE == 170

\* the longest payload the parser takes (elif self.length > 64)
MaxPayloadLen == 64

\* the longest of the short byte sequences fed to the parser
MaxBytes == 6

\* a ^ b on non-negative integers
RECURSIVE Xor(_, _)
Xor(a, b) ==
  IF a = 0 /\ b = 0 THEN 0
  ELSE ((a + b) % 2) + 2 * Xor(a \div 2, b \div 2)

\* payload[lo] ^ ... ^ payload[hi], by halves
RECURSIVE XorRange(_, _, _)
XorRange(payload, lo, hi) ==
  IF lo > hi THEN 0
  ELSE IF lo = hi THEN payload[lo]
  ELSE LET mid == (lo + hi) \div 2
       IN Xor(XorRange(payload, lo, mid), XorRange(payload, mid + 1, hi))

\* for b in payload: c ^= b
XorAll(c, payload) == Xor(c, XorRange(payload, 1, Len(payload)))

\* a plausible slip: the length byte is left out of the checksum
CalcChecksumNoLength(msg_type, length, payload) == XorAll(msg_type, payload) % 256

calc_checksum(msg_type, length, payload) ==
  XorAll(Xor(msg_type, length), payload) % 256

\* ReactorAgent.send_frame's frame
send_frame(msg_type, payload) ==
  LET length == Len(payload)
      checksum == calc_checksum(msg_type, length, payload)
  IN <<FRAME_START_BYTE, msg_type, length>> \o payload \o <<checksum>>

\* a plausible slip: no length is too large
LengthNeverTooLarge(length) == FALSE

\* elif self.length > 64
LengthTooLarge(length) == length > MaxPayloadLen

\* a plausible slip: the checksum byte is not compared
ChecksumAny(checksum, b) == TRUE

\* if self.checksum == b
ChecksumOk(checksum, b) == checksum = b

\* _process_byte calls the callback on byte b
Calls(p, b) == p.state = "READ_CHECKSUM" /\ ChecksumOk(p.checksum, b)

\* the parser's fields after _process_byte(b)
process_byte(p, b) ==
  IF p.state = "WAIT_START"
  THEN (IF b = FRAME_START_BYTE THEN [p EXCEPT !.state = "READ_TYPE"] ELSE p)
  ELSE IF p.state = "READ_TYPE"
  THEN [p EXCEPT !.msg_type = b, !.checksum = b, !.state = "READ_LENGTH"]
  ELSE IF p.state = "READ_LENGTH"
  THEN LET q == [p EXCEPT !.length = b, !.checksum = Xor(p.checksum, b)]
       IN IF b = 0 THEN [q EXCEPT !.payload = <<>>, !.state = "READ_CHECKSUM"]
          ELSE IF LengthTooLarge(b) THEN [q EXCEPT !.state = "WAIT_START"]
          ELSE [q EXCEPT !.payload = <<>>, !.state = "READ_PAYLOAD"]
  ELSE IF p.state = "READ_PAYLOAD"
  THEN LET q == [p EXCEPT !.payload = Append(@, b), !.checksum = Xor(p.checksum, b)]
       IN IF Len(q.payload) >= q.length THEN [q EXCEPT !.state = "READ_CHECKSUM"] ELSE q
  ELSE [p EXCEPT !.state = "WAIT_START"]

\* message types: 0, telemetry, command, the start byte and 255
ParserTypes == {0, 1, 16, FRAME_START_BYTE, 255}

\* a payload of the greatest length, start bytes among its bytes
FullPayload == [i \in 1..MaxPayloadLen |-> IF i % 5 = 0 THEN FRAME_START_BYTE ELSE (i * 37) % 256]

\* payloads of 0, 1, 2, 14 (a telemetry record's size) and 64 bytes
ParserPayloads ==
  { <<>>, <<0>>, <<FRAME_START_BYTE>>, <<7, 255>>, SubSeq(FullPayload, 1, 14), FullPayload }

\* the bytes of the short sequences: the start byte, 0, 1, 2 and a length
\* past the greatest
SmallBytes == {FRAME_START_BYTE, 0, 1, 2, MaxPayloadLen + 1}

ByteSequences == UNION { [1..n -> SmallBytes] : n \in 1..MaxBytes }

\* the sizes of the next feed call's data when n bytes are still to come
FeedSizes(n) == {k \in {1, 2, n} : k <= n}

\* a new parser and what will be fed to it: a frame built by send_frame, or a
\* short byte sequence
InitParser ==
  /\ InitBroker
  /\ codec = CodecIdle
  /\ matcher = MatcherIdle
  /\ reader = ReaderIdle
  /\ parser \in
       { [ParserNew EXCEPT !.input = send_frame(t, pl),
                           !.sent = << [msg_type |-> t, payload |-> pl] >>] :
         t \in ParserTypes, pl \in ParserPayloads }
       \cup { [ParserNew EXCEPT !.input = bs] : bs \in ByteSequences }

\* feed(data) is called with the next bytes of the input
ParserFeed ==
  /\ parser.state # "off"
  /\ parser.pos = parser.fed
  /\ \E k \in FeedSizes(Len(parser.input) - parser.pos) :
       parser' = [parser EXCEPT !.fed = parser.pos + k, !.split = parser.fed > 0]
  /\ UNCHANGED <<running, server, clients, subscriptions, lock, pc, loc, nread, wire,
                 registered, fwd, codec, matcher, reader>>

\* one round of feed's loop: _process_byte(b); the callback returns or raises,
\* and an exception it raises is caught
ParserProcessByte ==
  /\ parser.state # "off"
  /\ parser.pos < parser.fed
  /\ LET b == parser.input[parser.pos + 1]
         q == process_byte(parser, b)
     IN IF Calls(parser, b)
        THEN \E raised \in BOOLEAN :
               parser' = [q EXCEPT !.pos = parser.pos + 1,
                                   !.calls = Append(@, [msg_type |-> parser.msg_type,
                                                        payload |-> parser.payload,
                                                        at |-> parser.pos + 1,
                                                        raised |-> raised])]
        ELSE parser' = [q EXCEPT !.pos = parser.pos + 1]
  /\ UNCHANGED <<running, server, clients, subscriptions, lock, pc, loc, nread, wire,
                 registered, fwd, codec, matcher, reader>>

NextParser ==
  \/ ParserFeed
  \/ ParserProcessByte

SpecParser == InitParser /\ [][NextParser]_vars

(* ------------------------------------------------------------------ *)
(* Properties                                                          *)
(* ------------------------------------------------------------------ *)
\* a handler's forward_publish call has returned and its PUBACK step is next
Forwarded(h) == pc[h] = "puback"

\* the connections h's forward_publish call has called send() on: those it
\* wrote a frame to and those whose send() raised
Recipients(h) == {c \in Conns : fwd[h].sent[c] # <<>>} \cup fwd[h].failed

\* the union of the filter sets of the filters of registry subs that match topic
MatchingMembers(topic, subs) ==
  UNION {subs[f] : f \in {g \in DOMAIN subs : topic_matches(topic, g)}}

\* the filters of registry subs that match topic and hold connection c
MatchingFiltersOf(c, topic, subs) ==
  {f \in DOMAIN subs : topic_matches(topic, f) /\ c \in subs[f]}

\* a PUBLISH frame read by the rules of MQTT, which are the broker's own for a
\* PUBLISH it receives: header byte, remaining length, then topic, a packet
\* identifier when the header's QoS bits are not 0, and the payload
ReadPublishFrame(frame) ==
  LET d == decode_remaining_length(frame, 1)
      body == SubSeq(frame, d.pos + 1, Len(frame))
      r == ParsePublish(frame[1], body)
  IN [ ok |-> Len(frame) >= 2 /\ d.ok /\ d.value = Len(body) /\ r.ok,
       topic |-> r.topic, payload |-> r.payload ]

\* C1: End-to-end delivery.  When connection P's PUBLISH of (T, B), QoS 0 or 1,
\* has been forwarded, every connection C whose SUBSCRIBE for a filter F matching
\* T had completed before the forward was called, and whose cleanup has not
\* begun, has been written exactly one frame by that forward, a PUBLISH frame
\* carrying topic T and payload B (unless the transport refused the write).
C1_EndToEndDelivery ==
  \A h \in Conns : Forwarded(h) /\ loc[h].qos \in {0, 1} =>
    \A c \in Conns :
      ( /\ \E p \in fwd[h].atCall : p[1] = c /\ topic_matches(loc[h].topic, p[2])
        /\ c \in fwd[h].quietAtCall
        /\ ~CleanupBegun(c)
        /\ c \notin fwd[h].failed )
      => /\ Len(fwd[h].sent[c]) = 1
         /\ ReadPublishFrame(fwd[h].sent[c][1]).ok
         /\ ReadPublishFrame(fwd[h].sent[c][1]).topic = loc[h].topic
         /\ ReadPublishFrame(fwd[h].sent[c][1]).payload = loc[h].payload

\* C2: No duplicate delivery.  No forward writes more than one frame to a
\* connection, and a connection that is in several filter sets matching the
\* topic has been written exactly one frame when the forward returns (none
\* when its socket refused the write).
C2_NoDuplicateDelivery ==
  \A h \in Conns :
    /\ \A c \in Conns : Len(fwd[h].sent[c]) <= 1
    /\ Forwarded(h) =>
         \A c \in Conns :
           ( /\ Cardinality(MatchingFiltersOf(c, loc[h].topic, fwd[h].atLock)) >= 2
             /\ c \notin fwd[h].failed )
             => Len(fwd[h].sent[c]) = 1

\* a forward has returned that wrote one frame to a connection which two
\* matching filters held
C2_Witness ==
  \E h \in Conns, c \in Conns :
    /\ Forwarded(h)
    /\ Cardinality(MatchingFiltersOf(c, loc[h].topic, fwd[h].atLock)) >= 2
    /\ Len(fwd[h].sent[c]) = 1

\* cleanup_client has left its critical section for connection c
CleanedUp(c) == pc[c] \in {"cleanup_close", "closed"}

\* C3: Cleanup correctness.  Once cleanup_client has run for connection C, in
\* every later state C is in no filter set and not in the connection table,
\* and no step writes a frame to C.
C3_CleanupCorrectness ==
  [][ \A c \in Conns :
        /\ CleanedUp(c)' =>
             /\ c \notin DOMAIN clients'
             /\ \A f \in DOMAIN subscriptions' : c \notin subscriptions'[f]
        /\ CleanedUp(c) => CleanedUp(c)' /\ wire'[c] = wire[c] ]_vars

\* a connection that had connected and subscribed is closed, and a forward for
\* a topic matching its filter, started after its cleanup, has returned having
\* written nothing to it
C3_Witness ==
  \E h \in Conns, c \in Conns :
    /\ pc[c] = "closed"
    /\ Forwarded(h)
    /\ c \in fwd[h].begunAtLock
    /\ \E p \in registered : p[1] = c /\ topic_matches(loc[h].topic, p[2])
    /\ \E i \in 1..Len(wire[c]) : wire[c][i] = ConnackFrame
    /\ fwd[h].sent[c] = <<>>

\* C4: Cleanup is atomic with respect to forwarding.  In every interleaving,
\* no frame is written to a connection once its cleanup has acquired the lock,
\* and no forward in its send loop still owes a frame to such a connection.
C4_CleanupAtomic ==
  [][ \A c \in Conns :
        /\ CleanupBegun(c) => wire'[c] = wire[c]
        /\ CleanupBegun(c)' =>
             \A h \in Conns : pc'[h] = "fwd_send" => loc'[h].subscribers[c] = 0 ]_vars

\* a forward holds the lock and owes a frame to a connection whose handler is
\* waiting to enter cleanup_client
C4_Witness ==
  \E h \in Conns, c \in Conns :
    /\ pc[h] = "fwd_send"
    /\ loc[h].subscribers[c] > 0
    /\ pc[c] = "cleanup"

\* forward_publish is in its send loop with a write still to do
Writing(h) == pc[h] = "fwd_send" /\ \E s \in Conns : loc[h].subscribers[s] > 0

\* the handler of g is about to acquire the lock
AtLock(g) == pc[g] \in {"conn_lock", "sub_lock", "fwd_lock", "cleanup"}

\* C5 as stated: forwarding does not hold the registry lock while it writes,
\* so while a forward has a write to do, another handler that is about to
\* subscribe, clean up or forward finds the lock free.
C5_LockFreeWhileWriting ==
  \A h \in Conns, g \in Conns :
    Writing(h) /\ g # h /\ AtLock(g) => lock = 0

\* C5 as amended: forward_publish holds the lock from the collection of the
\* subscribers to its last write, so while a forward has a write to do no other
\* handler's subscribe, cleanup or forward step is enabled.
C5_LockHeldWhileWriting ==
  \A h \in Conns :
    pc[h] = "fwd_send" =>
      /\ lock = h
      /\ \A g \in Conns \ {h} :
           ~ ENABLED (SubAdd(g) \/ CleanupLock(g) \/ FwdLock(g) \/ ConnRegister(g))

\* a forward has a write to do while another handler waits for the lock
C5_Witness ==
  \E h \in Conns, g \in Conns : Writing(h) /\ g # h /\ AtLock(g) /\ lock = h

\* C6: QoS 1 acknowledgment.  The step that ends handle_publish for a PUBLISH
\* with QoS 1 and packet identifier K writes exactly one frame to the
\* publisher, the PUBACK carrying K, the forward before it having written one
\* copy to each connection of a matching filter set whose socket took it.
C6_Qos1Acknowledged ==
  [][ \A h \in Conns :
        Forwarded(h) /\ pc'[h] # "puback" /\ loc[h].qos = 1 =>
          /\ wire'[h] = Append(wire[h], PubackFrame(loc[h].msg_id))
          /\ \A c \in MatchingMembers(loc[h].topic, fwd[h].atLock) \ fwd[h].failed :
               Len(fwd[h].sent[c]) = 1 ]_vars

\* C7: Happens-before delivery.  If the registry update of C's subscribe to F
\* was done before forward_publish was called for a topic F matches, and C's
\* cleanup had not begun when the forward took the lock, the forward has
\* written a frame to C when it returns, unless C's socket refused the write.
C7_HappensBeforeDelivery ==
  \A h \in Conns : Forwarded(h) =>
    \A c \in Conns :
      ( /\ \E p \in fwd[h].atCall : p[1] = c /\ topic_matches(loc[h].topic, p[2])
        /\ c \notin fwd[h].begunAtLock
        /\ c \notin fwd[h].failed )
      => fwd[h].sent[c] # <<>>

\* a forward has returned that wrote to a connection subscribed, before the
\* call, under a wildcard filter only
C7_Witness ==
  \E h \in Conns, c \in Conns :
    /\ Forwarded(h)
    /\ h # c
    /\ <<c, FilterAHash>> \in fwd[h].atCall
    /\ loc[h].topic = TopicAC
    /\ c \notin fwd[h].begunAtLock
    /\ fwd[h].sent[c] # <<>>

\* C8: Exact recipient set.  When forward_publish returns, the connections it
\* has called send() on are exactly the union of the filter sets, as they were when it
\* took the lock, of the registered filters that match the topic.
C8_ExactRecipients ==
  \A h \in Conns : Forwarded(h) =>
    Recipients(h) = MatchingMembers(loc[h].topic, fwd[h].atLock)

\* a forward has returned with one connection written to and another, which
\* is registered under a filter that does not match, not written to
C8_Witness ==
  \E h \in Conns, c \in Conns, d \in Conns :
    /\ Forwarded(h)
    /\ c \in Recipients(h)
    /\ d \notin Recipients(h)
    /\ \E f \in DOMAIN fwd[h].atLock : d \in fwd[h].atLock[f]

\* C9: Length codec round trip.  For a length n in [0, 2^28 - 1] the decoder,
\* run on a stream that starts with encode_remaining_length(n), ends without
\* error, returns n and has consumed the encoded bytes and no other.
C9_RoundTrip ==
  (codec.pc \in {"done", "error"} /\ codec.n <= 268435455) =>
    /\ codec.pc = "done"
    /\ codec.value = codec.n
    /\ codec.pos = codec.enclen

\* the largest length has been decoded off a stream in which bytes follow it
C9_Witness ==
  /\ codec.pc = "done"
  /\ codec.n = 268435455
  /\ codec.pos = 4
  /\ Len(codec.stream) > codec.pos

\* the bytes the encoder produced
Encoded == SubSeq(codec.stream, 1, codec.enclen)

\* C10: Minimal-length encoding.  encode_remaining_length(n) is 1 byte long
\* for n in [0, 127], 2 for [128, 16383], 3 for [16384, 2097151] and 4 for
\* [2097152, 268435455]; every byte but the last has its high bit set and the
\* last has it clear.
C10_MinimalEncoding ==
  (codec.pc \in {"decode", "done", "error"} /\ codec.n <= 268435455) =>
    /\ codec.enclen = ( IF codec.n <= 127 THEN 1
                        ELSE IF codec.n <= 16383 THEN 2
                        ELSE IF codec.n <= 2097151 THEN 3 ELSE 4 )
    /\ \A i \in 1..(codec.enclen - 1) : Encoded[i] >= 128
    /\ Encoded[codec.enclen] < 128

\* lengths at both ends of the 3-byte and 4-byte ranges have been encoded
C10_Witness ==
  /\ codec.pc = "decode"
  /\ codec.n \in {16384, 2097151, 2097152, 268435455}
  /\ codec.enclen \in {3, 4}

(* ------------------------------------------------------------------ *)
(* C11, C12: the topic matcher (SpecMatch)                             *)
(* ------------------------------------------------------------------ *)
\* a filter segment that is '+' or the topic's own segment accepts it
SegAccepts(pattern_part, topic_part) ==
  pattern_part = <<Plus>> \/ pattern_part = topic_part

\* the 1-based index of the first '#' segment of a filter, 0 when it has none
FirstHash(pattern_parts) ==
  IF \E i \in 1..Len(pattern_parts) : pattern_parts[i] = <<Hash>>
  THEN CHOOSE i \in 1..Len(pattern_parts) :
         /\ pattern_parts[i] = <<Hash>>
         /\ \A j \in 1..(i - 1) : pattern_parts[j] # <<Hash>>
  ELSE 0

\* the reference rules, read off the segment lists: up to the first '#' every
\* filter segment needs a topic segment it accepts; without a '#' the counts
\* must also be equal
ReferenceMatch(topic_parts, pattern_parts) ==
  LET k == FirstHash(pattern_parts)
  IN IF k > 0
     THEN /\ Len(topic_parts) >= k - 1
          /\ \A j \in 1..(k - 1) : SegAccepts(pattern_parts[j], topic_parts[j])
     ELSE /\ Len(topic_parts) = Len(pattern_parts)
          /\ \A j \in 1..Len(pattern_parts) : SegAccepts(pattern_parts[j], topic_parts[j])

\* the matcher was called on this topic and this filter and returned r
MatchExample(topic, pattern, r) ==
  matcher.topic = topic /\ matcher.pattern = pattern => matcher.result = r

\* C11: for every topic and filter built of up to MaxSegs segments over
\* 'a', 'b', 'c', '+', '#' (and the empty segment), topic_matches returns what
\* the reference rules give; match('a/b','a/b'), match('a/b','a/+'),
\* match('a/b/c','a/#') and match('a','#') are true, match('a/b/c','a/+') and
\* match('a/b','a/b/c') are false
C11_MatcherAgreesWithReference ==
  matcher.pc = "done" =>
    /\ matcher.result = ReferenceMatch(matcher.topic_parts, matcher.pattern_parts)
    /\ MatchExample(<<97, 47, 98>>, <<97, 47, 98>>, TRUE)
    /\ MatchExample(<<97, 47, 98>>, <<97, 47, 43>>, TRUE)
    /\ MatchExample(<<97, 47, 98, 47, 99>>, <<97, 47, 35>>, TRUE)
    /\ MatchExample(<<97>>, <<35>>, TRUE)
    /\ MatchExample(<<97, 47, 98, 47, 99>>, <<97, 47, 43>>, FALSE)
    /\ MatchExample(<<97, 47, 98>>, <<97, 47, 98, 47, 99>>, FALSE)

\* the matcher has rejected topic 'a/b/c' against filter 'a/+'
C11_Witness ==
  /\ matcher.pc = "done"
  /\ matcher.topic = <<97, 47, 98, 47, 99>>
  /\ matcher.pattern = <<97, 47, 43>>
  /\ matcher.result = FALSE

\* C12: when segment i of the filter is '#', whatever its position and whatever
\* follows it, topic_matches returns true for every topic that has the segments
\* before i and whose segments before i are accepted by the filter's
C12_PermissiveHash ==
  matcher.pc = "done" =>
    \A i \in 1..Len(matcher.pattern_parts) :
      ( /\ matcher.pattern_parts[i] = <<Hash>>
        /\ Len(matcher.topic_parts) >= i - 1
        /\ \A j \in 1..(i - 1) :
             \/ SegAccepts(matcher.pattern_parts[j], matcher.topic_parts[j])
             \/ matcher.pattern_parts[j] = <<Hash>> )
      => matcher.result = TRUE

\* the matcher has accepted topic 'a' against filter 'a/#/c', '#' in the middle
C12_Witness ==
  /\ matcher.pc = "done"
  /\ matcher.pattern_parts = << <<97>>, <<Hash>>, <<99>> >>
  /\ matcher.topic = <<97>>
  /\ matcher.result = TRUE

(* ------------------------------------------------------------------ *)
(* C13: the response to SUBSCRIBE (SpecSubscribe)                      *)
(* ------------------------------------------------------------------ *)
\* the requested QoS bytes of a list of (filter, QoS) pairs
RequestedQos(filters) == [i \in 1..Len(filters) |-> filters[i].qos]

\* handle_subscribe has parsed the whole of a SUBSCRIBE payload and is about to
\* answer
SubscribeParsed(c) == pc[c] = "sub_loop" /\ loc[c].pos >= Len(loc[c].data)

\* C13: SUBSCRIBE response.  For a SUBSCRIBE with packet identifier K and
\* filters (f1,q1)...(fn,qn), the step that ends handle_subscribe leaves the
\* connection in the filter set of every fi and writes it one frame, a SUBACK
\* whose payload is K in 2 bytes followed by q1..qn in request order.
C13_SubscribeResponse ==
  [][ \A c \in Conns :
        SubscribeParsed(c) /\ pc'[c] # "sub_loop" =>
          LET req == loc[c].req
              K == SubSeq(loc[c].data, 1, 2)
          IN /\ \A i \in 1..Len(req) :
                  /\ req[i].filter \in DOMAIN subscriptions'
                  /\ c \in subscriptions'[req[i].filter]
             /\ Len(wire'[c]) = Len(wire[c]) + 1
             /\ SubSeq(wire'[c], 1, Len(wire[c])) = wire[c]
             /\ LET suback == wire'[c][Len(wire'[c])]
                IN /\ suback[1] = SUBACK
                   /\ SubSeq(suback, 3, Len(suback)) = K \o RequestedQos(req) ]_vars

(* ------------------------------------------------------------------ *)
(* C14 - C16: CONNECT, the connection table, unlisted packet types     *)
(* ------------------------------------------------------------------ *)
\* the handler of c reads a packet in this step
ReadsPacket(c) == pc[c] = "recv" /\ pc'[c] # "recv" /\ nread' = nread + 1

\* the client identifier the peer has put in a CONNECT payload whose protocol
\* name is 'MQTT': 10 bytes of variable header, a 2-byte length, the identifier
ConnectIdentifier(data) ==
  SubSeq(data, 13, 12 + data[11] * 256 + data[12])

\* C14: CONNECT handshake.  Every well-formed CONNECT, whatever its protocol
\* level, connect flags, keep-alive or client identifier (one already in use
\* included), is answered with the bytes 20 02 00 00 and nothing else, and the
\* handler's next step puts the connection in the connection table under the
\* identifier the packet carries.
C14_ConnectHandshake ==
  [][ \A c \in Conns :
        /\ ReadsPacket(c) /\ loc'[c].packet_type = CONNECT =>
             /\ wire'[c] = Append(wire[c], <<32, 2, 0, 0>>)
             /\ pc'[c] = "conn_lock"
        /\ pc[c] = "conn_lock" /\ pc'[c] # "conn_lock" =>
             /\ c \in DOMAIN clients'
             /\ clients'[c].id = ConnectIdentifier(loc[c].data)
             /\ wire'[c] = wire[c]
             /\ pc'[c] = "loop" ]_vars

\* two connections are in the table under the same identifier 'd', each
\* answered with one CONNACK, the CONNECT being of level 3 with every flag set
C14_Witness ==
  \E c \in Conns, d \in Conns :
    /\ c # d
    /\ c \in DOMAIN clients /\ d \in DOMAIN clients
    /\ clients[c].id = ClientIdD /\ clients[d].id = ClientIdD
    /\ wire[c] = << <<32, 2, 0, 0>> >>
    /\ wire[d] = << <<32, 2, 0, 0>> >>

\* the handler of c has been through handle_connect: a CONNACK is on its socket
Connected(c) == \E i \in 1..Len(wire[c]) : wire[c][i] = ConnackFrame

\* C15: Connection-table invariant.  A connection is in the connection table
\* only if its handler has processed a CONNECT and cleanup_client has not yet
\* removed it; so no entry is there, or comes back, after the connection's
\* cleanup.
C15_TableInvariant ==
  \A c \in DOMAIN clients : Connected(c) /\ ~CleanedUp(c)

\* a connection that was in the table (it has its CONNACK) has been cleaned up
\* and is not in the table, while another one is
C15_Witness ==
  \E c \in Conns, d \in Conns :
    /\ Connected(c) /\ pc[c] = "closed" /\ c \notin DOMAIN clients
    /\ d \in DOMAIN clients

\* C16: Unlisted packet types close the connection.  When a connection that
\* is in the table sends a packet whose type the dispatch does not list
\* (PUBACK 0x40 for one), the handler goes to cleanup and reads no later
\* packet.  (A repeated CONNECT is left aside here.)
C16_UnlistedTypeCloses ==
  [][ \A c \in Conns :
        ( /\ c \in DOMAIN clients
          /\ ReadsPacket(c)
          /\ loc'[c].packet_type
               \notin {CONNECT, PUBLISH, SUBSCRIBE, PINGREQ, DISCONNECT} )
        => pc'[c] = "cleanup" ]_vars

(* ------------------------------------------------------------------ *)
(* C17, C18: errors stay with the connection they happen on            *)
(* ------------------------------------------------------------------ *)
\* C17: Delivery-error isolation.  When the write to a matched subscriber has
\* failed during a forward, the forward has still written the frame to every
\* other matched subscriber, the publisher's handler goes on with its loop,
\* and a QoS 1 publisher is written its PUBACK.
C17_DeliveryErrorIsolation ==
  [][ \A h \in Conns :
        Forwarded(h) /\ pc'[h] # "puback" /\ fwd[h].failed # {} =>
          /\ \A c \in MatchingMembers(loc[h].topic, fwd[h].atLock) \ fwd[h].failed :
               Len(fwd[h].sent[c]) = 1
          /\ pc'[h] = "loop"
          /\ loc[h].qos = 1 =>
               wire'[h] = Append(wire[h], PubackFrame(loc[h].msg_id)) ]_vars

\* the handler of c takes a step of its way out: the step that ends its loop,
\* or a step of cleanup_client
Ending(c) ==
  /\ pc'[c] # pc[c]
  /\ pc'[c] = "cleanup" \/ pc[c] \in {"cleanup", "cleanup_locked", "cleanup_close"}

\* C18: Error isolation between connections.  The steps by which a handler
\* ends (an error or EOF, then cleanup_client) remove that connection's table
\* entry and memberships and nothing else: every other connection keeps its
\* table entry and its memberships, its handler stays where it is, and the
\* accept loop keeps running.
C18_ErrorIsolation ==
  [][ \A c \in Conns :
        Ending(c) =>
          /\ DOMAIN subscriptions' = DOMAIN subscriptions
          /\ \A d \in Conns \ {c} :
               /\ d \in DOMAIN clients <=> d \in DOMAIN clients'
               /\ d \in DOMAIN clients => clients'[d] = clients[d]
               /\ \A f \in DOMAIN subscriptions :
                    d \in subscriptions[f] <=> d \in subscriptions'[f]
               /\ pc'[d] = pc[d]
          /\ server' = server /\ running' = running
          /\ CleanedUp(c)' =>
               /\ c \notin DOMAIN clients'
               /\ \A f \in DOMAIN subscriptions' : c \notin subscriptions'[f] ]_vars

\* connection c, which had registered a filter, is closed and in no filter
\* set, while connection d is still in that filter's set and in the table,
\* its handler waiting for a packet, and the broker accepting
C18_Witness ==
  \E c \in Conns, d \in Conns, f \in DOMAIN subscriptions :
    /\ c # d
    /\ pc[c] = "closed" /\ <<c, f>> \in registered
    /\ \A g \in DOMAIN subscriptions : c \notin subscriptions[g]
    /\ d \in subscriptions[f] /\ d \in DOMAIN clients
    /\ pc[d] = "recv" /\ server = "accepting"

(* ------------------------------------------------------------------ *)
(* C19: every handler ends in cleanup (FairSpec)                       *)
(* ------------------------------------------------------------------ *)
\* cleanup_client is over for c: no membership, no table entry, socket closed
Closed(c) ==
  /\ pc[c] = "closed"
  /\ c \notin DOMAIN clients
  /\ \A f \in DOMAIN subscriptions : c \notin subscriptions[f]

FrameOf(frame, m) ==
  /\ Len(frame) >= 1 + Len(m.topic) + Len(m.payload)
  /\ frame[1] = m.flags
  /\ SubSeq(frame, Len(frame) - Len(m.topic) - Len(m.payload) + 1, Len(frame))
       = m.topic \o m.payload

\* C20: Per-publisher ordering.  The writes a handler's forwards make to one
\* subscriber come in the order in which the handler read the PUBLISH packets:
\* the frame for an earlier PUBLISH stands before the frame for a later one on
\* the subscriber's socket; and a handler that is about to read a packet has
\* no forward in progress and owes no write.
C20_PerPublisherOrder ==
  \A h \in Conns :
    LET log == fwd[h].log
        pubs == fwd[h].pubs
    IN /\ \A i \in DOMAIN log :
            /\ log[i].n \in DOMAIN pubs
            /\ log[i].at \in DOMAIN wire[log[i].to]
            /\ FrameOf(wire[log[i].to][log[i].at], pubs[log[i].n])
       /\ \A i \in DOMAIN log, j \in DOMAIN log :
            i < j /\ log[i].to = log[j].to =>
              /\ log[i].n <= log[j].n
              /\ log[i].at < log[j].at
       /\ pc[h] \in {"loop", "recv"} =>
            /\ ~fwd[h].active
            /\ \A s \in Conns : loc[h].subscribers[s] = 0

\* a handler has read two different PUBLISH packets and its forwards have
\* written a frame for each of them to the same subscriber
C20_Witness ==
  \E h \in Conns, s \in Conns :
    LET log == fwd[h].log
    IN /\ Len(fwd[h].pubs) = 2
       /\ fwd[h].pubs[1] # fwd[h].pubs[2]
       /\ pc[h] = "recv"
       /\ \E i \in DOMAIN log, j \in DOMAIN log :
            /\ log[i].to = s /\ log[j].to = s
            /\ log[i].n = 1 /\ log[j].n = 2

\* the 0-based stream position of the first payload byte of the packet the
\* reader is on
PayloadStart == reader.at + 1 + reader.nlen

\* C21: Packet framing.  When the reader hands a packet to its handler and the
\* stream held the whole payload the remaining length announces, the packet's
\* data is exactly that many bytes and the reader stands at the frame's end,
\* where the next header byte is; a read that returns fewer bytes than asked
\* for never makes a partial payload a packet.
C21_PacketFraming ==
  reader.stage = "dispatch" /\ PayloadStart + reader.value <= Len(reader.stream) =>
    /\ Len(reader.data) = reader.value
    /\ reader.data = Slice(reader.stream, PayloadStart, reader.value)
    /\ reader.pos = PayloadStart + reader.value

\* C22: Stream closing inside the remaining-length field.  When the stream has
\* ended where the decoder wants a length byte (right after the header byte or
\* after a length byte with its continuation bit set) the handler goes to
\* cleanup: no length is returned, no data is read and no packet dispatched.
C22_EofInLengthIsError ==
  [][reader.stage = "length" /\ reader.pos >= Len(reader.stream) =>
       /\ reader'.stage = "cleanup"
       /\ reader'.dispatched = reader.dispatched
       /\ reader'.data = reader.data]_vars

\* the stream ended after a length byte with its continuation bit set, and the
\* handler is in cleanup having dispatched nothing from that header on
C22_Witness ==
  /\ reader.eof_in_length
  /\ reader.stage = "cleanup"
  /\ reader.nlen >= 1
  /\ reader.stream[Len(reader.stream)] >= 128
  /\ \A i \in DOMAIN reader.dispatched : reader.dispatched[i].at < reader.at

\* C30: Remaining-length field of at most 4 bytes.  Once the reader has read a
\* 4th length byte with its continuation bit set, the handler is in cleanup:
\* no 5th length byte is read and no packet dispatched.
C30_LengthAtMostFourBytes ==
  /\ reader.nlen <= 4
  /\ reader.nlen = 4 /\ reader.stream[reader.at + 5] >= 128 => reader.stage = "cleanup"

\* C23: Graceful shutdown.  Once running is false and the listening socket is
\* closed, no connection is accepted, and a handler whose connection is in the
\* table and which stands at the top of its loop goes on to read the next
\* packet: the broker does not close the connection of its own accord.
C23_GracefulShutdown ==
  [][~running /\ server = "stopped" =>
       \A c \in Conns :
         /\ pc[c] = "idle" => pc'[c] = "idle"
         /\ c \in DOMAIN clients /\ pc[c] = "loop" => pc'[c] \in {"loop", "recv"}]_vars

\* C24: PINGREQ handling.  A handler that reads a PINGREQ writes the two bytes
\* 0xD0 0x00 to its own connection and to no other, leaves the connection
\* table and the subscription registry as they are, and returns to the top of
\* its loop.
C24_PingreqAnswered ==
  [][\A c \in Conns :
       ReadsPacket(c) /\ loc'[c].packet_type = PINGREQ =>
         /\ wire'[c] = Append(wire[c], <<208, 0>>)
         /\ \A d \in Conns \ {c} : wire'[d] = wire[d]
         /\ clients' = clients
         /\ subscriptions' = subscriptions
         /\ pc'[c] = "loop"]_vars

\* a connected handler has answered a PINGREQ while another connection holds a
\* subscription
C24_Witness ==
  \E c \in Conns :
    /\ loc[c].packet_type = PINGREQ
    /\ pc[c] = "loop"
    /\ c \in DOMAIN clients
    /\ wire[c] = <<ConnackFrame, <<208, 0>> >>
    /\ \E f \in DOMAIN subscriptions : subscriptions[f] \ {c} # {}

\* the frame the i-th write of h's forwards put on its subscriber's socket
WrittenFrame(h, i) == wire[fwd[h].log[i].to][fwd[h].log[i].at]

\* the PUBLISH, as h's handler parsed it, that the i-th write of h's forwards
\* was made for
WrittenFor(h, i) == fwd[h].pubs[fwd[h].log[i].n]

\* C25: Forwarded frame layout.  Every frame a forward writes to a subscriber
\* is the publisher's header byte as it came, then the remaining length
\* 2 + len(topic) + len(payload) in its variable-length encoding, then the
\* topic length in two bytes, high byte first, the topic and the payload; the
\* publisher's packet identifier is not in it.
C25_ForwardedFrameLayout ==
  \A h \in Conns : \A i \in DOMAIN fwd[h].log :
    LET m == WrittenFor(h, i)
        topic_bytes == Encode(m.topic)
        n == Len(topic_bytes)
    IN WrittenFrame(h, i) =
         <<m.flags>> \o encode_remaining_length(2 + n + Len(m.payload))
           \o <<n \div 256, n % 256>> \o topic_bytes \o m.payload

\* a QoS 1 PUBLISH with DUP and RETAIN set and a payload of more than 127
\* bytes has been forwarded: the frame has a two-byte remaining length
C25_Witness ==
  \E h \in Conns : \E i \in DOMAIN fwd[h].log :
    /\ WrittenFor(h, i).flags = 59
    /\ Len(WrittenFor(h, i).payload) = LongLen
    /\ WrittenFrame(h, i)[1] = 59
    /\ WrittenFrame(h, i)[2] >= 128
    /\ Len(WrittenFrame(h, i)) = 3 + 2 + 3 + LongLen

\* C26: Forwarded frames parse back.  Every frame a forward writes to a
\* subscriber, read by the broker's own PUBLISH rules under the frame's header
\* byte, gives the topic and the payload of the PUBLISH it was written for.
C26_ForwardedFrameParsesBack ==
  \A h \in Conns : \A i \in DOMAIN fwd[h].log :
    LET r == ReadPublishFrame(WrittenFrame(h, i))
    IN /\ r.ok
       /\ r.topic = WrittenFor(h, i).topic
       /\ r.payload = WrittenFor(h, i).payload

\* C27: A repeated CONNECT closes the connection.  A handler whose connection
\* is in the table and which reads a CONNECT goes to cleanup and writes
\* nothing, and a handler about to register its connection does not replace an
\* entry the table already has.
C27_RepeatedConnectCloses ==
  [][\A c \in Conns :
       /\ c \in DOMAIN clients /\ ReadsPacket(c) /\ loc'[c].packet_type = CONNECT =>
            /\ pc'[c] = "cleanup"
            /\ wire' = wire
       /\ c \in DOMAIN clients /\ pc[c] = "conn_lock" /\ pc'[c] # "conn_lock" =>
            clients'[c] = clients[c]]_vars

\* the handler of c has sent no CONNACK and its connection is not in the table
NoConnectYet(c) == c \notin DOMAIN clients /\ ~Connected(c)

\* C28: No CONNECT-first enforcement.  On a connection that has sent no
\* CONNECT, a PINGREQ is answered with PINGRESP; a PUBLISH that parses is
\* handed to forward_publish, which writes to the members of the filter sets
\* matching its topic, after which the handler returns to its loop; and the
\* step ending handle_subscribe leaves the connection in the filter set of
\* every filter asked for and writes it the SUBACK.  None of them closes the
\* connection.
C28_NoConnectFirstEnforcement ==
  [][\A c \in Conns : NoConnectYet(c) =>
       /\ ReadsPacket(c) /\ loc'[c].packet_type = PINGREQ =>
            /\ wire'[c] = Append(wire[c], PingrespFrame)
            /\ pc'[c] = "loop"
       /\ ReadsPacket(c) /\ loc'[c].packet_type = PUBLISH
                         /\ loc'[c].data \in {p.data : p \in PublishInputs} =>
            /\ pc'[c] = "fwd_lock"
            /\ fwd'[c].active
       /\ Forwarded(c) /\ pc'[c] # "puback" =>
            /\ Recipients(c) = MatchingMembers(loc[c].topic, fwd[c].atLock)
            /\ pc'[c] = "loop"
       /\ ReadsPacket(c) /\ loc'[c].packet_type = SUBSCRIBE => pc'[c] = "sub_loop"
       /\ SubscribeParsed(c) /\ pc'[c] # "sub_loop" =>
            /\ \A i \in 1..Len(loc[c].req) :
                 /\ loc[c].req[i].filter \in DOMAIN subscriptions'
                 /\ c \in subscriptions'[loc[c].req[i].filter]
            /\ wire'[c] = Append(wire[c], SubackFrame(loc[c].msg_id,
                                                     RequestedQos(loc[c].req)))
            /\ pc'[c] = "loop"]_vars

\* no connection has sent a CONNECT; one has subscribed to 'a/b' and has its
\* SUBACK, the other has published to 'a/b', which was forwarded to the first,
\* and has then had a PINGREQ answered; both handlers are in their loops
C28_Witness ==
  \E c \in Conns, h \in Conns :
    /\ c # h
    /\ clients = <<>>
    /\ NoConnectYet(c) /\ NoConnectYet(h)
    /\ Len(wire[c]) = 2
    /\ wire[c][1][1] = SUBACK
    /\ wire[c][2][1] \div 16 = 3
    /\ \E i \in DOMAIN fwd[h].log : fwd[h].log[i].to = c
    /\ wire[h] = <<PingrespFrame>>
    /\ pc[c] = "loop" /\ pc[h] = "loop"

\* the 2-byte topic length at the head of a PUBLISH payload is more than the
\* number of bytes that follow it
TopicLengthOverruns(data) ==
  Len(data) >= 2 /\ data[1] * 256 + data[2] > Len(data) - 2

\* C29: Length overrun inside PUBLISH.  A handler that reads a PUBLISH, QoS 0
\* or QoS 1, whose topic length runs past the end of the packet goes to
\* cleanup, and no forward is begun for it.
C29_PublishOverrunCloses ==
  [][\A c \in Conns :
       ReadsPacket(c) /\ loc'[c].packet_type = PUBLISH
                      /\ TopicLengthOverruns(loc'[c].data) =>
         /\ pc'[c] = "cleanup"
         /\ fwd' = fwd]_vars

\* C31: SUBACK framing for any filter count.  For a SUBSCRIBE of n filters the
\* step that ends handle_subscribe writes the connection one frame: the byte
\* 0x90, the remaining length 2 + n in its variable-length encoding (two bytes
\* from n = 126 on), the packet identifier and the n granted-QoS bytes.
C31_SubackFraming ==
  [][\A c \in Conns :
       SubscribeParsed(c) /\ pc'[c] # "sub_loop" =>
         LET req == loc[c].req
             K == SubSeq(loc[c].data, 1, 2)
         IN wire'[c] = Append(wire[c], <<144>> \o encode_remaining_length(2 + Len(req))
                                         \o K \o RequestedQos(req))]_vars

(* ------------------------------------------------------------------ *)
(* C33 - C35: the serial frame parser                                  *)
(* ------------------------------------------------------------------ *)
\* the parser has processed every byte of its input
AllFed == parser.state # "off" /\ parser.pos = Len(parser.input)

\* C33: Serial frame round trip.  When a new parser has been fed the whole of
\* a frame built by send_frame from a type byte and a payload of 0..64 bytes,
\* in one feed call or several, the callback has been called exactly once,
\* with that type and payload, and the parser is in WAIT_START; before the
\* last byte the callback has not been called.
C33_FrameRoundTrip ==
  parser.sent # <<>> =>
    IF AllFed
    THEN /\ Len(parser.calls) = 1
         /\ parser.calls[1].msg_type = parser.sent[1].msg_type
         /\ parser.calls[1].payload = parser.sent[1].payload
         /\ parser.state = "WAIT_START"
    ELSE parser.calls = <<>>

\* a frame of type 0xAA with a 64-byte payload holding start bytes has been
\* fed whole in more than one feed call
C33_Witness ==
  /\ parser.sent # <<>>
  /\ AllFed
  /\ parser.sent[1].msg_type = FRAME_START_BYTE
  /\ Len(parser.sent[1].payload) = MaxPayloadLen
  /\ parser.split
  /\ Len(parser.calls) = 1

\* _process_byte runs in this step
ProcessesByte == parser.state # "off" /\ parser'.pos = parser.pos + 1

\* C34: Checksum gate.  Over any input the callback is called only on a byte
\* read in READ_CHECKSUM that equals the XOR of the buffered frame's type,
\* length and payload bytes, and then with that type and payload; on any other
\* byte there it is not called; and after every byte read in READ_CHECKSUM,
\* whether it matched or not and whether the callback raised or not, the
\* parser is in WAIT_START.
C34_ChecksumGate ==
  [][ProcessesByte =>
       LET b == parser.input[parser.pos + 1]
           expected == calc_checksum(parser.msg_type, parser.length, parser.payload)
       IN IF parser.state = "READ_CHECKSUM"
          THEN /\ parser'.state = "WAIT_START"
               /\ parser.length = Len(parser.payload)
               /\ IF b = expected
                  THEN /\ Len(parser'.calls) = Len(parser.calls) + 1
                       /\ SubSeq(parser'.calls, 1, Len(parser.calls)) = parser.calls
                       /\ parser'.calls[Len(parser'.calls)].msg_type = parser.msg_type
                       /\ parser'.calls[Len(parser'.calls)].payload = parser.payload
                  ELSE parser'.calls = parser.calls
          ELSE parser'.calls = parser.calls]_vars

\* on a byte sequence that no send_frame built, the callback was called with
\* a payload and raised, a later byte has been read, and the parser reads on
C34_Witness ==
  /\ parser.sent = <<>>
  /\ Len(parser.calls) = 1
  /\ parser.calls[1].raised
  /\ parser.calls[1].payload # <<>>
  /\ parser.calls[1].at < parser.pos
  /\ parser.state = "WAIT_START"

\* the buffered payload has at most 64 bytes and, in READ_PAYLOAD, fewer than
\* the declared length
PayloadBounded ==
  /\ Len(parser.payload) <= 64
  /\ parser.state = "READ_PAYLOAD" => Len(parser.payload) < parser.length

\* C35: Length bound.  In every state of the parser the buffered payload has
\* at most 64 bytes and, in READ_PAYLOAD, fewer bytes than the declared
\* length; a length byte above 64 takes the parser to WAIT_START with no
\* callback, and a length byte 0 takes it to READ_CHECKSUM with an empty
\* payload.
C35_LengthBound ==
  /\ []PayloadBounded
  /\ [][ProcessesByte /\ parser.state = "READ_LENGTH" =>
          LET b == parser.input[parser.pos + 1]
          IN /\ b > 64 => parser'.state = "WAIT_START" /\ parser'.calls = parser.calls
             /\ b = 0 => parser'.state = "READ_CHECKSUM" /\ parser'.payload = <<>>
             /\ b \in 1..64 => parser'.state = "READ_PAYLOAD" /\ parser'.payload = <<>>]_vars

\* a length byte of 65 has been read as the third byte: the parser is in
\* WAIT_START and the callback has not been called
C35_Witness ==
  /\ parser.length = 65
  /\ parser.state = "WAIT_START"
  /\ parser.pos = 3
  /\ parser.calls = <<>>

ReceivedAfterConnack(c) ==
  \E i \in DOMAIN wire[c], j \in DOMAIN wire[c] :
    i < j /\ wire[c][i] = ConnackFrame /\ PacketType(wire[c][j][1]) = PUBLISH

C36_MembersAreRegistered ==
  \A f \in DOMAIN subscriptions : subscriptions[f] \subseteq DOMAIN clients

\* the handler of h holds the lock inside forward_publish and has a write to
\* c's socket still to make
ForwardingTo(h, c) == pc[h] = "fwd_send" /\ lock = h /\ loc[h].subscribers[c] > 0

\* C37: Writes to one socket are serialized.  The broker lock keeps the
\* replies of a connection's own handler and the frames other handlers
\* forward to it apart: while a handler holds the lock with a forward to c's
\* socket still to make, the only write to that socket is that forward,
\* never a reply of c's own handler.
C37_WritesSerialized ==
  [][\A c \in Conns :
       wire'[c] # wire[c] =>
         \A h \in Conns \ {c} :
           ForwardingTo(h, c) => loc'[h].subscribers[c] < loc[h].subscribers[c]]_vars

\* C38: SUBACK precedes delivery.  On every connection's socket a forwarded
\* PUBLISH frame comes after a SUBACK: no frame is forwarded to a connection
\* on account of a SUBSCRIBE whose SUBACK has not been written.
C38_SubackPrecedesDelivery ==
  \A c \in Conns : \A j \in DOMAIN wire[c] :
    PacketType(wire[c][j][1]) = PUBLISH =>
      \E i \in 1..(j - 1) : wire[c][i][1] = SUBACK

\* C39: SUBSCRIBE is all-or-nothing.  The step of handle_subscribe that puts
\* the connection in a filter set puts it in the filter sets of all the
\* packet's filters; and when the parse of a later filter fails, the
\* connection is in no filter set on account of the packet and has been
\* forwarded nothing.
C39_SubscribeAllOrNothing ==
  [][\A c \in Conns :
       /\ pc[c] = "sub_lock" /\ pc'[c] # "sub_lock" =>
            \A i \in DOMAIN loc[c].req :
              /\ loc[c].req[i].filter \in DOMAIN subscriptions'
              /\ c \in subscriptions'[loc[c].req[i].filter]
       /\ pc[c] = "sub_loop" /\ pc'[c] = "cleanup" /\ loc[c].pos < Len(loc[c].data) =>
            /\ \A f \in DOMAIN subscriptions : c \notin subscriptions[f]
            /\ wire[c] = <<>>]_vars

\* C40: No self-exclusion.  When a handler's forward_publish has returned and
\* the handler's own connection was, when the forward took the lock, in the
\* filter set of a filter matching the topic, the forward has written the
\* connection exactly one frame, the PUBLISH (unless its send() raised); this
\* is before the PUBACK and before the handler reads again.
C40_NoSelfExclusion ==
  \A h \in Conns :
    ( /\ Forwarded(h)
      /\ h \in MatchingMembers(loc[h].topic, fwd[h].atLock)
      /\ h \notin fwd[h].failed ) =>
      /\ Len(fwd[h].sent[h]) = 1
      /\ \E j \in DOMAIN wire[h] : wire[h][j] = fwd[h].sent[h][1]
      /\ fwd[h].sent[h][1] = BuildPublish(loc[h].flags, loc[h].topic, loc[h].payload)

\* a connection subscribed to 'a/b' has published to 'a/b' at QoS 1 and its
\* forward has returned: its own socket holds the SUBACK and then the forwarded
\* copy, and the PUBACK is still to be written
C40_Witness ==
  \E h \in Conns :
    /\ Forwarded(h)
    /\ loc[h].qos = 1 /\ loc[h].msg_id # 0
    /\ loc[h].topic = TopicAB
    /\ TopicAB \in DOMAIN fwd[h].atLock /\ h \in fwd[h].atLock[TopicAB]
    /\ Len(wire[h]) = 2
    /\ wire[h][1][1] = SUBACK
    /\ wire[h][2] = fwd[h].sent[h][1]

====
